---- MODULE Spec2Model ----
(***************************************************************************)
(* A model of LogicReasoner (logic_reasoning.py): the text of a problem is *)
(* a sequence of characters, reason() extracts a formal statement or falls *)
(* back to the natural-language conversions, builds a SymPy expression,    *)
(* enumerates its truth table and classifies it.  SymPy's constructors,    *)
(* atoms(), subs() and satisfiable() are modelled by what they compute on  *)
(* the values the reasoner hands them.                                     *)
(***************************************************************************)
EXTENDS Integers, Sequences, FiniteSets, TLC

(***************************************************************************)
(* Characters.  A text is a sequence of one-character strings; the five    *)
(* logic symbols are named by their code points.                           *)
(***************************************************************************)
cImp == "u2192"
cAnd == "u2227"
cOr  == "u2228"
cNot == "u00AC"
cEqv == "u2261"

UpperLetters == <<"A", "B", "E", "F", "I", "N", "O", "P", "T">>
LowerLetters == <<"a", "b", "e", "f", "i", "n", "o", "p", "t">>
OtherLower   == <<"d", "h", "l", "m", "q", "r", "s", "u", "v", "y">>

Range(s) == {s[i] : i \in DOMAIN s}

IsUpper(c)  == c \in Range(UpperLetters)
IsLetter(c) == c \in Range(UpperLetters) \cup Range(LowerLetters) \cup Range(OtherLower)
IsWordChar(c) == IsLetter(c)
IsSpace(c)  == c = " "
IsSymbolOp(c) == c \in {cImp, cAnd, cOr, cNot, cEqv}

\* Code-point order of the characters (Python compares strings by code point).
CodeOrder == <<" ", "&", "(", ")", ",", ".", "?">> \o UpperLetters
             \o <<"a", "b", "d", "e", "f", "h", "i", "l", "m", "n", "o", "p",
                  "q", "r", "s", "t", "u", "v", "y", "|", "~">>
             \o <<cNot, cImp, cAnd, cOr, cEqv>>

Ord(c) == CHOOSE i \in DOMAIN CodeOrder : CodeOrder[i] = c

\* str.lower() on one character and on a text
LowerChar(c) ==
    IF IsUpper(c)
    THEN LowerLetters[CHOOSE i \in DOMAIN UpperLetters : UpperLetters[i] = c]
    ELSE c

Lower(s) == [i \in DOMAIN s |-> LowerChar(s[i])]

\* s[i:j] of Python, 0-based, end exclusive, for 0 <= i <= j <= len(s)
Slice(s, i, j) == SubSeq(s, i + 1, j)

\* s.startswith(sub, i), i 0-based
StartsAt(s, sub, i) ==
    /\ i + Len(sub) <= Len(s)
    /\ \A k \in 1..Len(sub) : s[i + k] = sub[k]

\* sub in s
Contains(s, sub) == \E i \in 0..Len(s) : StartsAt(s, sub, i)

\* s.replace(old, new): the non-overlapping occurrences, left to right
RECURSIVE ReplaceFrom(_, _, _, _)
ReplaceFrom(s, old, new, i) ==
    IF i >= Len(s) THEN <<>>
    ELSE IF Len(old) > 0 /\ StartsAt(s, old, i)
         THEN new \o ReplaceFrom(s, old, new, i + Len(old))
         ELSE <<s[i + 1]>> \o ReplaceFrom(s, old, new, i + 1)

Replace(s, old, new) == ReplaceFrom(s, old, new, 0)

\* s.strip(chars)
RECURSIVE LStrip(_, _)
LStrip(s, chars) ==
    IF s # <<>> /\ Head(s) \in chars THEN LStrip(Tail(s), chars) ELSE s

RECURSIVE RStrip(_, _)
RStrip(s, chars) ==
    IF s # <<>> /\ s[Len(s)] \in chars
    THEN RStrip(SubSeq(s, 1, Len(s) - 1), chars) ELSE s

Strip(s, chars) == RStrip(LStrip(s, chars), chars)

Whitespace == {" "}

\* the number of whitespace characters of s from position i (0-based) on
RECURSIVE SpacesAt(_, _)
SpacesAt(s, i) ==
    IF i < Len(s) /\ IsSpace(s[i + 1]) THEN 1 + SpacesAt(s, i + 1) ELSE 0

\* lexicographic order of two texts by code point: a < b
RECURSIVE StrLess(_, _)
StrLess(a, b) ==
    IF b = <<>> THEN FALSE
    ELSE IF a = <<>> THEN TRUE
    ELSE IF Head(a) = Head(b) THEN StrLess(Tail(a), Tail(b))
    ELSE Ord(Head(a)) < Ord(Head(b))


(***************************************************************************)
(* Python values.  Every SymPy object is a record [op, args, name]; the    *)
(* absent value None and a raised exception are records of the same shape, *)
(* so that a function's outcome is one value: its result or what it raised.*)
(***************************************************************************)
Node(op, args, name) == [op |-> op, args |-> args, name |-> name]

None          == Node("None", <<>>, <<>>)
NoneStr       == <<"None">>
Raise(kind)   == Node("raise", <<>>, <<kind>>)
IsRaise(v)    == v.op = "raise"
Symbol(name)  == Node("Symbol", <<>>, name)
BoolTrue      == Node("true", <<>>, <<>>)
BoolFalse     == Node("false", <<>>, <<>>)
PyTuple(args) == Node("tuple", args, <<>>)
SymTuple(args) == Node("Tuple", args, <<>>)

IsBoolConst(e) == e.op \in {"true", "false"}

\* the pieces of s.split(): the maximal runs of non-whitespace characters
RECURSIVE SplitWhitespace(_)
SplitWhitespace(s) ==
    LET t == LStrip(s, Whitespace)
        n == IF \E i \in DOMAIN t : IsSpace(t[i])
             THEN (CHOOSE i \in DOMAIN t :
                      IsSpace(t[i]) /\ \A k \in 1..(i - 1) : ~IsSpace(t[k])) - 1
             ELSE Len(t)
    IN  IF t = <<>> THEN <<>>
        ELSE <<SubSeq(t, 1, n)>> \o SplitWhitespace(SubSeq(t, n + 1, Len(t)))

\* sympy.symbols(names): one Symbol for one name, a Python tuple of Symbols
\* for several, ValueError for none
symbols(names) ==
    LET parts == SplitWhitespace(names)
    IN  IF parts = <<>> THEN Raise("ValueError")
        ELSE IF Len(parts) = 1 THEN Symbol(parts[1])
        ELSE PyTuple([i \in DOMAIN parts |-> Symbol(parts[i])])

(***************************************************************************)
(* _extract_logical_statement: the four patterns, tried in order, each by  *)
(* re.search with re.IGNORECASE (the leftmost match).  A pattern matcher   *)
(* gives the end (exclusive, 0-based) of the match that starts at i, or -1.*)
(***************************************************************************)
\* [A-Z]\s*[→∧∨¬≡]\s*[A-Z]
MatchSymbolic(s, i) ==
    IF ~(i < Len(s) /\ IsLetter(s[i + 1])) THEN -1
    ELSE LET j == i + 1 + SpacesAt(s, i + 1)
         IN  IF ~(j < Len(s) /\ IsSymbolOp(s[j + 1])) THEN -1
             ELSE LET k == j + 1 + SpacesAt(s, j + 1)
                  IN  IF k < Len(s) /\ IsLetter(s[k + 1]) THEN k + 1 ELSE -1

\* \([A-Z]\s*[→∧∨¬≡]\s*[A-Z]\)
MatchSymbolicParen(s, i) ==
    IF ~(i < Len(s) /\ s[i + 1] = "(") THEN -1
    ELSE LET e == MatchSymbolic(s, i + 1)
         IN  IF e # -1 /\ e < Len(s) /\ s[e + 1] = ")" THEN e + 1 ELSE -1

wImplies == <<"i", "m", "p", "l", "i", "e", "s">>
wIff     == <<"i", "f", "f">>

\* [A-Z]\s*(implies|iff)\s*[A-Z]
MatchWord(s, i) ==
    IF ~(i < Len(s) /\ IsLetter(s[i + 1])) THEN -1
    ELSE LET j == i + 1 + SpacesAt(s, i + 1)
             w == IF StartsAt(Lower(s), wImplies, j) THEN Len(wImplies)
                  ELSE IF StartsAt(Lower(s), wIff, j) THEN Len(wIff)
                  ELSE 0
         IN  IF w = 0 THEN -1
             ELSE LET k == j + w + SpacesAt(s, j + w)
                  IN  IF k < Len(s) /\ IsLetter(s[k + 1]) THEN k + 1 ELSE -1

\* \([A-Z]\s*(implies|iff)\s*[A-Z]\)
MatchWordParen(s, i) ==
    IF ~(i < Len(s) /\ s[i + 1] = "(") THEN -1
    ELSE LET e == MatchWord(s, i + 1)
         IN  IF e # -1 /\ e < Len(s) /\ s[e + 1] = ")" THEN e + 1 ELSE -1

\* formal_patterns[k] matched at offset i: the end of the match, or -1
MatchPattern(k, s, i) ==
    CASE k = 1 -> MatchSymbolic(s, i)
      [] k = 2 -> MatchSymbolicParen(s, i)
      [] k = 3 -> MatchWord(s, i)
      [] k = 4 -> MatchWordParen(s, i)

\* a search that hands back the rightmost match, which C29 has to reject
SearchRightmost(k, s) ==
    IF \E i \in 0..(Len(s) - 1) : MatchPattern(k, s, i) # -1
    THEN LET i == CHOOSE i \in 0..(Len(s) - 1) :
                     MatchPattern(k, s, i) # -1
                     /\ \A j \in (i + 1)..(Len(s) - 1) : MatchPattern(k, s, j) = -1
         IN  Slice(s, i, MatchPattern(k, s, i))
    ELSE NoneStr

\* re.search: match.group(0) of the leftmost match, or None
Search(k, s) ==
    IF \E i \in 0..(Len(s) - 1) : MatchPattern(k, s, i) # -1
    THEN LET i == CHOOSE i \in 0..(Len(s) - 1) :
                     MatchPattern(k, s, i) # -1
                     /\ \A j \in 0..(i - 1) : MatchPattern(k, s, j) = -1
         IN  Slice(s, i, MatchPattern(k, s, i))
    ELSE NoneStr

\* lines 83-88: the first pattern, in list order, that matches
_extract_logical_statement(problem) ==
    IF \E k \in 1..4 : Search(k, problem) # NoneStr
    THEN Search(CHOOSE k \in 1..4 : Search(k, problem) # NoneStr
                                   /\ \A j \in 1..(k - 1) : Search(j, problem) = NoneStr,
                problem)
    ELSE NoneStr

(***************************************************************************)
(* SymPy.  str(), sympify of a Python tuple, and the evaluating             *)
(* constructors Not, And, Or, Implies as the reasoner calls them            *)
(* (logic_reasoning.py line 9 imports them).                                *)
(***************************************************************************)
RECURSIVE Join(_, _)
Join(parts, sep) ==
    IF parts = <<>> THEN <<>>
    ELSE IF Len(parts) = 1 THEN parts[1]
    ELSE parts[1] \o sep \o Join(Tail(parts), sep)

RECURSIVE Str(_)
Str(e) ==
    LET Paren(x) == IF x.op \in {"And", "Or", "Implies"}
                    THEN <<"(">> \o Str(x) \o <<")">> ELSE Str(x)
        Each(f(_), xs) == [i \in DOMAIN xs |-> f(xs[i])]
    IN  CASE e.op = "Symbol"  -> e.name
          [] e.op = "true"    -> <<"T", "r", "u", "e">>
          [] e.op = "false"   -> <<"F", "a", "l", "s", "e">>
          [] e.op = "Not"     -> <<"~">> \o Paren(e.args[1])
          [] e.op = "And"     -> Join(Each(Paren, e.args), <<" ", "&", " ">>)
          [] e.op = "Or"      -> Join(Each(Paren, e.args), <<" ", "|", " ">>)
          [] e.op = "Implies" -> <<"I", "m", "p", "l", "i", "e", "s", "(">>
                                 \o Join(Each(Str, e.args), <<",", " ">>) \o <<")">>
          [] e.op \in {"Tuple", "tuple"} ->
                 <<"(">> \o Join(Each(Str, e.args), <<",", " ">>)
                 \o (IF Len(e.args) = 1 THEN <<",">> ELSE <<>>) \o <<")">>
          [] OTHER -> <<"?">>

\* sorted(S, key=str) for a set of SymPy objects with different str()
RECURSIVE SortedByStr(_)
SortedByStr(S) ==
    IF S = {} THEN <<>>
    ELSE LET m == CHOOSE x \in S : \A y \in S \ {x} : StrLess(Str(x), Str(y))
         IN  <<m>> \o SortedByStr(S \ {m})

\* sympify: a Python tuple becomes a SymPy Tuple
RECURSIVE sympify(_)
sympify(a) ==
    IF a.op = "tuple" THEN SymTuple([i \in DOMAIN a.args |-> sympify(a.args[i])])
    ELSE a

\* the first raised exception among already evaluated arguments, if any
FirstRaise(args) ==
    IF \E i \in DOMAIN args : IsRaise(args[i])
    THEN args[CHOOSE i \in DOMAIN args :
                 IsRaise(args[i]) /\ \A k \in 1..(i - 1) : ~IsRaise(args[k])]
    ELSE None

\* as_Boolean accepts Symbols and Booleans only
IsBoolean(a) == a.op \in {"Symbol", "true", "false", "Not", "And", "Or", "Implies"}

\* Not.eval on a sympified argument
NotEval(x) ==
    CASE x.op = "true"  -> BoolFalse
      [] x.op = "false" -> BoolTrue
      [] x.op = "Not"   -> x.args[1]
      [] OTHER          -> Node("Not", <<x>>, <<>>)

Not(a) == IF IsRaise(a) THEN a ELSE NotEval(sympify(a))

\* the arguments of an And or Or in their canonical order, which for
\* variables is the order of their names
ArgsInOrder(S) == SortedByStr(S)

\* what is left of the flattened arguments without the identity
LatticeKept(op, identity, kept) ==
    IF kept = {} THEN identity
    ELSE IF Cardinality(kept) = 1 THEN CHOOSE x \in kept : TRUE
    ELSE Node(op, ArgsInOrder(kept), <<>>)

\* the flattened arguments as a set: the zero absorbs
LatticeFlat(op, zero, identity, flat) ==
    IF zero \in flat THEN zero ELSE LatticeKept(op, identity, flat \ {identity})

\* the sympified arguments: each has to be a Boolean; nested applications of
\* the same operator are flattened
LatticeArgs(op, zero, identity, xs) ==
    IF \E i \in DOMAIN xs : ~IsBoolean(xs[i]) THEN Raise("TypeError")
    ELSE LatticeFlat(op, zero, identity,
                     UNION {IF xs[i].op = op THEN Range(xs[i].args) ELSE {xs[i]}
                            : i \in DOMAIN xs})

\* LatticeOp over the Boolean lattice: op is "And" (zero false, identity true)
\* or "Or" (zero true, identity false)
Lattice(op, zero, identity, args) ==
    IF FirstRaise(args) # None THEN FirstRaise(args)
    ELSE LatticeArgs(op, zero, identity, [i \in DOMAIN args |-> sympify(args[i])])

\* a conjunction evaluated as a disjunction, which C6 has to reject
AndAsOr(args) == Lattice("Or", BoolTrue, BoolFalse, args)

And(args) == Lattice("And", BoolFalse, BoolTrue, args)
Or(args)  == Lattice("Or", BoolTrue, BoolFalse, args)

\* an implication that forgets to negate its antecedent, which C5 has to
\* reject
ImpliesWithoutNot(a, b) ==
    IF IsBoolConst(sympify(a)) \/ IsBoolConst(sympify(b)) THEN Or(<<a, b>>)
    ELSE Node("Implies", <<sympify(a), sympify(b)>>, <<>>)

\* an implication of a variable by itself evaluated to false, which C28 has to
\* reject
ImpliesEvalSameAsFalse(x, y) ==
    IF IsBoolConst(x) \/ IsBoolConst(y) THEN Or(<<Not(x), y>>)
    ELSE IF x = y THEN BoolFalse
    ELSE Node("Implies", <<x, y>>, <<>>)

\* Implies.eval on sympified arguments
ImpliesEval(x, y) ==
    IF IsBoolConst(x) \/ IsBoolConst(y) THEN Or(<<Not(x), y>>)
    ELSE IF x = y THEN BoolTrue
    ELSE Node("Implies", <<x, y>>, <<>>)

Implies(a, b) ==
    IF IsRaise(a) THEN a
    ELSE IF IsRaise(b) THEN b
    ELSE ImpliesEval(sympify(a), sympify(b))

(***************************************************************************)
(* The builder: operator_map, _parse_atom and _parse_statement.  The       *)
(* interning cache symbol_map is a function from names to SymPy objects;   *)
(* a function that may write it returns [value, symbol_map].               *)
(***************************************************************************)
wAnd        == <<"A", "n", "d">>
wOr         == <<"O", "r">>
wNot        == <<"N", "o", "t">>
wImpliesCap == <<"I", "m", "p", "l", "i", "e", "s">>
wEquivalent == <<"E", "q", "u", "i", "v", "a", "l", "e", "n", "t">>

\* operator_map in insertion order: <<key, sympy_op.__name__>>
operator_map ==
    << <<Lower(wAnd), wAnd>>,
       <<Lower(wOr), wOr>>,
       <<Lower(wNot), wNot>>,
       <<wImplies, wImpliesCap>>,
       <<wIff, wEquivalent>>,
       <<<<"i", "f", " ", "a", "n", "d", " ", "o", "n", "l", "y", " ", "i", "f">>,
         wEquivalent>>,
       <<<<cImp>>, wImpliesCap>>,
       <<<<cAnd>>, wAnd>>,
       <<<<cOr>>, wOr>>,
       <<<<cNot>>, wNot>>,
       <<<<cEqv>>, wEquivalent>> >>

\* lines 154-156: each operator found in the lower-cased text is replaced
\* (case-sensitively) by the name of its SymPy class
RECURSIVE ReplaceOperators(_, _)
ReplaceOperators(clean, k) ==
    IF k > Len(operator_map) THEN clean
    ELSE ReplaceOperators(
             IF Contains(Lower(clean), operator_map[k][1])
             THEN Replace(clean, operator_map[k][1], operator_map[k][2])
             ELSE clean,
             k + 1)

\* re.findall(r'\b[A-Z]\b', s) as a set
StandaloneCapitals(s) ==
    {s[i] : i \in {k \in DOMAIN s :
                     /\ IsUpper(s[k])
                     /\ (k = 1 \/ ~IsWordChar(s[k - 1]))
                     /\ (k = Len(s) \/ ~IsWordChar(s[k + 1]))}}

\* re.split on an alternation of literal separators, scanning from i with the
\* current piece starting at start (both 0-based)
RECURSIVE SplitFrom(_, _, _, _)
SplitFrom(s, seps, i, start) ==
    IF i >= Len(s) THEN <<Slice(s, start, Len(s))>>
    ELSE IF \E k \in DOMAIN seps : StartsAt(s, seps[k], i)
         THEN LET k == CHOOSE k \in DOMAIN seps :
                          StartsAt(s, seps[k], i)
                          /\ \A j \in 1..(k - 1) : ~StartsAt(s, seps[j], i)
              IN  <<Slice(s, start, i)>>
                  \o SplitFrom(s, seps, i + Len(seps[k]), i + Len(seps[k]))
         ELSE SplitFrom(s, seps, i + 1, start)

Split(s, seps) == SplitFrom(s, seps, 0, 0)

\* lines 214-217: the new symbol is cached, unless symbols() raised
NewSymbol(atom, symbol, symbol_map) ==
    IF IsRaise(symbol)
    THEN [value |-> symbol, symbol_map |-> symbol_map]
    ELSE [value |-> symbol, symbol_map |-> (atom :> symbol) @@ symbol_map]

\* a cache hit that hands back the first symbol of the cache, whatever the
\* name asked for, which C26 has to reject
LookupAtomFirstCached(atom, symbol_map) ==
    IF atom \in DOMAIN symbol_map
    THEN [value |-> symbol_map[CHOOSE n \in DOMAIN symbol_map :
                                  \A o \in DOMAIN symbol_map \ {n} : StrLess(n, o)],
          symbol_map |-> symbol_map]
    ELSE NewSymbol(atom, symbols(atom), symbol_map)

\* lines 211-217 on the stripped atom
LookupAtom(atom, symbol_map) ==
    IF atom \in DOMAIN symbol_map
    THEN [value |-> symbol_map[atom], symbol_map |-> symbol_map]
    ELSE NewSymbol(atom, symbols(atom), symbol_map)

_parse_atom(atom0, symbol_map) ==
    LookupAtom(Strip(atom0, {"(", ")", " "}), symbol_map)

\* [self._parse_atom(part.strip()) for part in parts]: the values so far and
\* the cache; the comprehension stops at the first exception
RECURSIVE ParseAtoms(_, _, _)
ParsedAtom(parts, values, r) ==
    IF IsRaise(r.value)
    THEN [value |-> Append(values, r.value), symbol_map |-> r.symbol_map]
    ELSE ParseAtoms(Tail(parts), Append(values, r.value), r.symbol_map)

ParseAtoms(parts, values, symbol_map) ==
    IF parts = <<>> THEN [value |-> values, symbol_map |-> symbol_map]
    ELSE ParsedAtom(parts, values,
                    _parse_atom(Strip(Head(parts), Whitespace), symbol_map))

\* a cache made afresh from the capitals of one statement, which C19 has to
\* reject
InternVariablesAfresh(clean, symbol_map) ==
    [n \in {<<v>> : v \in StandaloneCapitals(clean)} |-> symbols(n)]

\* lines 158-167: the stand-alone capitals are interned first
InternVariables(clean, symbol_map) ==
    LET new == {<<v>> : v \in StandaloneCapitals(clean)} \ DOMAIN symbol_map
    IN  [n \in new |-> symbols(n)] @@ symbol_map

\* line 175 on the parsed sides
ImpliesOfAtoms(r) ==
    [value |-> IF FirstRaise(r.value) # None THEN FirstRaise(r.value)
               ELSE Implies(r.value[1], r.value[2]),
     symbol_map |-> r.symbol_map]

\* lines 171-175
ImpliesBranch(clean, symbol_map, parts) ==
    IF Len(parts) = 2 THEN ImpliesOfAtoms(ParseAtoms(parts, <<>>, symbol_map))
    ELSE _parse_atom(clean, symbol_map)

\* line 181 on the parsed atoms
AndOfAtoms(r) == [value |-> And(r.value), symbol_map |-> r.symbol_map]

\* lines 178-181
AndBranch(clean, symbol_map, parts) ==
    IF Len(parts) >= 2 THEN AndOfAtoms(ParseAtoms(parts, <<>>, symbol_map))
    ELSE _parse_atom(clean, symbol_map)

\* line 187 on the parsed atoms
OrOfAtoms(r) == [value |-> Or(r.value), symbol_map |-> r.symbol_map]

\* lines 184-187
OrBranch(clean, symbol_map, parts) ==
    IF Len(parts) >= 2 THEN OrOfAtoms(ParseAtoms(parts, <<>>, symbol_map))
    ELSE _parse_atom(clean, symbol_map)

\* line 191 on the parsed atom
NotOfAtom(r) == [value |-> Not(r.value), symbol_map |-> r.symbol_map]

\* lines 190-191
NotBranch(clean, symbol_map) ==
    NotOfAtom(_parse_atom(
        Strip(Replace(Replace(clean, <<cNot>>, <<>>), wNot, <<>>), Whitespace),
        symbol_map))

\* lines 169-194 on the cleaned statement, with the variables interned
BuildExpression(clean, symbol_map) ==
    IF Contains(clean, <<cImp>>) \/ Contains(clean, wImpliesCap)
    THEN ImpliesBranch(clean, symbol_map, Split(clean, <<<<cImp>>, wImpliesCap>>))
    ELSE IF Contains(clean, <<cAnd>>) \/ Contains(clean, wAnd)
    THEN AndBranch(clean, symbol_map, Split(clean, <<<<cAnd>>, wAnd>>))
    ELSE IF Contains(clean, <<cOr>>) \/ Contains(clean, wOr)
    THEN OrBranch(clean, symbol_map, Split(clean, <<<<cOr>>, wOr>>))
    ELSE IF Contains(clean, <<cNot>>) \/ Contains(clean, wNot)
    THEN NotBranch(clean, symbol_map)
    ELSE _parse_atom(clean, symbol_map)

\* the exception handler of lines 196-198: None when anything raised
NoneIfRaised(built) ==
    IF IsRaise(built.value)
    THEN [value |-> None, symbol_map |-> built.symbol_map]
    ELSE built

\* lines 158-167: the variables of the cleaned statement are interned first
ParseClean(clean, symbol_map0) ==
    NoneIfRaised(BuildExpression(clean, InternVariables(clean, symbol_map0)))

_parse_statement(statement, symbol_map0) ==
    ParseClean(ReplaceOperators(Strip(statement, Whitespace), 1), symbol_map0)

(***************************************************************************)
(* The evaluator: atoms(), subs(), simplify() and _generate_truth_table.   *)
(* A Python bool or str stored in a row is a record [type, repr]; a row is *)
(* a dict in insertion order, a sequence of <<key, value>>.                *)
(***************************************************************************)
PyBool(b) == [type |-> "bool", repr |-> IF b THEN Str(BoolTrue) ELSE Str(BoolFalse)]
PyStr(s)  == [type |-> "str", repr |-> s]
kResult   == <<"R", "e", "s", "u", "l", "t">>

\* d[key] = value on a dict kept in insertion order
DictSet(d, key, value) ==
    IF \E i \in DOMAIN d : d[i][1] = key
    THEN [i \in DOMAIN d |-> IF d[i][1] = key THEN <<key, value>> ELSE d[i]]
    ELSE Append(d, <<key, value>>)

DictKeys(d)     == [i \in DOMAIN d |-> d[i][1]]
DictGet(d, key) == d[CHOOSE i \in DOMAIN d : d[i][1] = key][2]
DictHas(d, key) == \E i \in DOMAIN d : d[i][1] = key

\* Basic.atoms(): the nodes without arguments, constants included
RECURSIVE AtomsOf(_)
AtomsOf(e) ==
    IF e.args = <<>> THEN {e}
    ELSE UNION {AtomsOf(e.args[i]) : i \in DOMAIN e.args}

\* expression.atoms() raises AttributeError on a Python tuple
AtomsRaises(e) == e.op \in {"tuple", "None"}
atoms(e)       == AtomsOf(e)

\* expression.subs(assignment): every atom of the assignment is replaced by
\* its truth value and the expression is rebuilt by its constructors
RECURSIVE subs(_, _)
subs(e, assignment) ==
    LET sub(i) == subs(e.args[i], assignment)
    IN  IF e \in DOMAIN assignment
        THEN (IF assignment[e] THEN BoolTrue ELSE BoolFalse)
        ELSE CASE e.op = "Not"     -> Not(sub(1))
               [] e.op = "And"     -> And([i \in DOMAIN e.args |-> sub(i)])
               [] e.op = "Or"      -> Or([i \in DOMAIN e.args |-> sub(i)])
               [] e.op = "Implies" -> Implies(sub(1), sub(2))
               [] e.op = "Tuple"   -> SymTuple([i \in DOMAIN e.args |-> sub(i)])
               [] OTHER            -> e

\* the bits of i read from the right, which C4 has to reject
BitFromRight(i, n, j) == (i \div (2 ^ j)) % 2 = 1

\* format(i, '0nb')[j] == '1' for j 0-based
Bit(i, n, j) == (i \div (2 ^ (n - 1 - j))) % 2 = 1

\* lines 243-247: the assignment of row i over the sorted atoms
AssignmentOf(symbols_list, i) ==
    [a \in Range(symbols_list) |->
        Bit(i, Len(symbols_list),
            (CHOOSE j \in DOMAIN symbols_list : symbols_list[j] = a) - 1)]

\* lines 256-261: the evaluated expression as a Python bool, or its text
ResultValue(r) ==
    IF r = BoolTrue THEN PyBool(TRUE)
    ELSE IF r = BoolFalse THEN PyBool(FALSE)
    ELSE PyStr(Str(r))

\* lines 264-267
RECURSIVE RowOf(_, _, _, _)
RowOf(symbols_list, assignment, result_value, j) ==
    IF j = 0 THEN <<>>
    ELSE IF j > Len(symbols_list)
         THEN DictSet(RowOf(symbols_list, assignment, result_value, j - 1),
                      kResult, result_value)
         ELSE DictSet(RowOf(symbols_list, assignment, result_value, j - 1),
                      Str(symbols_list[j]), PyBool(assignment[symbols_list[j]]))

\* a row kept for an assignment whose evaluation raised, which C24 has to
\* reject
RowsForKeepingFailed(symbols_list, assignment, result) ==
    <<RowOf(symbols_list, assignment,
            IF IsRaise(result) THEN PyStr(<<"Error">>) ELSE ResultValue(result),
            Len(symbols_list) + 1)>>

\* lines 256-273: the row of an evaluated assignment; none when the
\* evaluation raised.  simplify() leaves a truth value, and a Not over a
\* Tuple of truth values, as it is.
RowsFor(symbols_list, assignment, result) ==
    IF IsRaise(result) THEN <<>>
    ELSE <<RowOf(symbols_list, assignment, ResultValue(result),
                 Len(symbols_list) + 1)>>

\* lines 249-273 for one assignment
RowsAt(expression, symbols_list, assignment) ==
    RowsFor(symbols_list, assignment, subs(expression, assignment))

\* the loop of lines 241-273 from row i on
RECURSIVE TableRows(_, _, _)
TableRows(expression, symbols_list, i) ==
    IF i >= 2 ^ Len(symbols_list) THEN <<>>
    ELSE RowsAt(expression, symbols_list, AssignmentOf(symbols_list, i))
         \o TableRows(expression, symbols_list, i + 1)

\* lines 234-275 over the sorted atoms
TableOver(expression, symbols_list) ==
    IF symbols_list = <<>> THEN <<>>
    ELSE TableRows(expression, symbols_list, 0)

_generate_truth_table(expression) ==
    IF AtomsRaises(expression) THEN <<>>
    ELSE TableOver(expression, SortedByStr(atoms(expression)))

(***************************************************************************)
(* The classifier: satisfiable() and _analyze_expression.  A text built    *)
(* by an f-string is a sequence of fragments, the inserted text character  *)
(* by character.  A confidence is counted in tenths: 9 stands for 0.9.     *)
(***************************************************************************)
\* the propositional literals of e: its Symbols and, taken whole, its Tuples
RECURSIVE Literals(_)
Literals(e) ==
    IF e.op \in {"Symbol", "Tuple"} THEN {e}
    ELSE UNION {Literals(e.args[i]) : i \in DOMAIN e.args}

RECURSIVE Holds(_, _)
Holds(e, m) ==
    CASE e.op \in {"Symbol", "Tuple"} -> m[e]
      [] e.op = "true"    -> TRUE
      [] e.op = "false"   -> FALSE
      [] e.op = "Not"     -> ~Holds(e.args[1], m)
      [] e.op = "And"     -> \A i \in DOMAIN e.args : Holds(e.args[i], m)
      [] e.op = "Or"      -> \E i \in DOMAIN e.args : Holds(e.args[i], m)
      [] e.op = "Implies" -> Holds(e.args[1], m) => Holds(e.args[2], m)

\* a solver that tries the all-true assignment only, which C9 has to reject
satisfiableAllTrue(e) == Holds(e, [l \in Literals(e) |-> TRUE])

\* whether satisfiable(e) returns a model (a non-empty dict) and not False
satisfiable(e) == \E m \in [Literals(e) -> BOOLEAN] : Holds(e, m)

wIf   == <<"i", "f">>
wThen == <<"t", "h", "e", "n">>

MentionsIfThen(problem) ==
    Contains(Lower(problem), wIf) /\ Contains(Lower(problem), wThen)

\* lines 331-333
IfThenNote(original_problem) ==
    IF MentionsIfThen(original_problem)
    THEN <<"\nThis appears to be a conditional statement (if-then).\n">>
    ELSE <<>>

\* satisfiable(e) rewrites an implication as Or(Not(a), b), and Or raises
\* TypeError on a Tuple
SatisfiableRaises(e) == e.op = "Implies" /\ e.args[2].op = "Tuple"

\* lines 293-341 with the first line of the explanation and its last
Analysis(expression, head, note) ==
    IF AtomsRaises(expression)
    THEN [explanation |-> <<"Error in analysis: ", "AttributeError">>,
          conclusion  |-> <<"Analysis failed">>,
          confidence  |-> 1]
    ELSE IF atoms(expression) # {} /\ SatisfiableRaises(expression)
    THEN [explanation |-> <<"Error in analysis: ", "TypeError">>,
          conclusion  |-> <<"Analysis failed">>,
          confidence  |-> 1]
    ELSE IF atoms(expression) # {}
    THEN IF satisfiable(expression)
         THEN IF ~satisfiable(Not(expression))
              THEN [explanation |-> head
                        \o <<"The expression is satisfiable (not a contradiction).\n",
                             "The expression is a tautology (always true).\n">> \o note,
                    conclusion  |-> <<"The statement is always true (tautology).">>,
                    confidence  |-> 9]
              ELSE [explanation |-> head
                        \o <<"The expression is satisfiable (not a contradiction).\n",
                             "The expression is a contingency (sometimes true, sometimes false).\n">>
                        \o note,
                    conclusion  |-> <<"The statement depends on the truth values of its components.">>,
                    confidence  |-> 7]
         ELSE [explanation |-> head
                   \o <<"The expression is a contradiction (never true).\n">> \o note,
               conclusion  |-> <<"The statement is always false (contradiction).">>,
               confidence  |-> 9]
    ELSE IF expression = BoolTrue
    THEN [explanation |-> head \o <<"The expression is always true.\n">> \o note,
          conclusion  |-> <<"The statement is always true.">>,
          confidence  |-> 10]
    ELSE IF expression = BoolFalse
    THEN [explanation |-> head \o <<"The expression is always false.\n">> \o note,
          conclusion  |-> <<"The statement is always false.">>,
          confidence  |-> 10]
    ELSE [explanation |-> head \o <<"The expression has a constant value.\n">> \o note,
          conclusion  |-> <<"The statement evaluates to: ">> \o Str(expression),
          confidence  |-> 8]

_analyze_expression(expression, original_problem) ==
    Analysis(expression,
             <<"Analyzing the logical expression: ">> \o Str(expression) \o <<"\n\n">>,
             IfThenNote(original_problem))

(***************************************************************************)
(* reason and the paths it chooses between.  A result is the returned dict *)
(* as a record; 'expression' is present on the successful paths only.      *)
(* Each function also hands back the cache and, for the properties, the    *)
(* expression object it built (parsed_expr, None when there is none).      *)
(***************************************************************************)
Outcome(value, symbol_map, parsed_expr) ==
    [value |-> value, symbol_map |-> symbol_map, parsed_expr |-> parsed_expr]

\* a success dict that leaves the expression out, which C25 has to reject
ResultDictWithoutExpression(analysis, truth_table, expression) ==
    [result      |-> analysis.explanation,
     truth_table |-> truth_table,
     conclusion  |-> analysis.conclusion,
     confidence  |-> analysis.confidence,
     success     |-> TRUE]

\* lines 120-127: the returned dict
ResultDict(analysis, truth_table, expression) ==
    [result      |-> analysis.explanation,
     truth_table |-> truth_table,
     conclusion  |-> analysis.conclusion,
     confidence  |-> analysis.confidence,
     success     |-> TRUE,
     expression  |-> expression]

\* lines 114-127: the table and the classification of a built expression
AnalyzeParsed(parsed, original_problem) ==
    ResultDict(_analyze_expression(parsed, original_problem),
               _generate_truth_table(parsed), Str(parsed))

\* lines 103-127 once the statement is parsed
ParsedOutcome(p, statement, original_problem) ==
    IF p.value = None
    THEN Outcome([result      |-> <<"Could not parse logical statement: ">> \o statement,
                  truth_table |-> None,
                  conclusion  |-> <<"Parsing failed">>,
                  confidence  |-> 2,
                  success     |-> FALSE],
                 p.symbol_map, None)
    ELSE Outcome(AnalyzeParsed(p.value, original_problem), p.symbol_map, p.value)

_analyze_logical_statement(statement, original_problem, symbol_map) ==
    ParsedOutcome(_parse_statement(statement, symbol_map), statement, original_problem)

\* re.search(r'if\s+(.+?)\s+then\s+(.+)', s) with 'if' at i, group 1 = s[a:b]
\* (all 0-based); group 2 then starts at ConsequentStart and runs to the end
IfThenAt(s, i, a, b) ==
    /\ StartsAt(s, wIf, i)
    /\ a >= i + 3 /\ a < b /\ b < Len(s)
    /\ \A k \in (i + 2)..(a - 1) : IsSpace(s[k + 1])
    /\ SpacesAt(s, b) >= 1
    /\ StartsAt(s, wThen, b + SpacesAt(s, b))
    /\ SpacesAt(s, b + SpacesAt(s, b) + Len(wThen)) >= 1
    /\ \/ b + SpacesAt(s, b) + Len(wThen)
            + SpacesAt(s, b + SpacesAt(s, b) + Len(wThen)) < Len(s)
       \/ SpacesAt(s, b + SpacesAt(s, b) + Len(wThen)) >= 2

\* where group 2 starts when 'then' ends at t: after the whitespace, or on
\* its last character when nothing follows it
ConsequentAfter(s, t) ==
    IF t + SpacesAt(s, t) < Len(s) THEN t + SpacesAt(s, t) ELSE Len(s) - 1

ConsequentStart(s, b) == ConsequentAfter(s, b + SpacesAt(s, b) + Len(wThen))

IfThenMatches(s) == \E i, a, b \in 0..Len(s) : IfThenAt(s, i, a, b)

\* the groups of the match with 'if' at i, group 1 = s[a:b]
GroupsAt(s, a, b) ==
    [antecedent |-> Strip(Slice(s, a, b), Whitespace),
     consequent |-> Strip(Slice(s, ConsequentStart(s, b), Len(s)), Whitespace)]

\* the shortest group 1 that starts at a
ShortestFrom(s, i, a) ==
    GroupsAt(s, a, CHOOSE b \in 0..Len(s) :
                      /\ IfThenAt(s, i, a, b)
                      /\ \A k \in 0..(b - 1) : ~IfThenAt(s, i, a, k))

\* the longest \s+ after the 'if' at i
MatchFrom(s, i) ==
    ShortestFrom(s, i, CHOOSE a \in 0..Len(s) :
                          /\ \E b \in 0..Len(s) : IfThenAt(s, i, a, b)
                          /\ \A k \in (a + 1)..Len(s) :
                                \A b \in 0..Len(s) : ~IfThenAt(s, i, k, b))

\* the match the regex engine reports: the leftmost 'if', after it the
\* longest \s+, and the shortest group 1
IfThenMatch(s) ==
    MatchFrom(s, CHOOSE i \in 0..Len(s) :
                    /\ \E a, b \in 0..Len(s) : IfThenAt(s, i, a, b)
                    /\ \A k \in 0..(i - 1) :
                          \A a, b \in 0..Len(s) : ~IfThenAt(s, k, a, b))

\* the conditional pattern searched in the text as written, which C10 has to
\* reject
ConditionalTextAsWritten(problem) == problem

\* line 399: the text the conditional pattern is searched in
ConditionalText(problem) == Lower(problem)

\* lines 402-440: the answer for a matched conditional
ConditionalAnswer(groups, expression) ==
    [result      |-> <<"Conditional Analysis:\n", "Antecedent (A): ">>
                     \o groups.antecedent
                     \o <<"\n", "Consequent (B): ">>
                     \o groups.consequent
                     \o <<"\n", "Logical form: A -> B\n\n",
                          "Truth table shows when the conditional is true:\n",
                          "- When A is false, the conditional is always true (vacuous truth)\n",
                          "- When A is true and B is true, the conditional is true\n",
                          "- When A is true and B is false, the conditional is false\n">>,
     truth_table |-> _generate_truth_table(expression),
     conclusion  |-> <<"This is a conditional statement (if-then). The truth table shows all possible truth value combinations.">>,
     confidence  |-> 8,
     success     |-> TRUE,
     expression  |-> Str(expression)]

\* lines 399-446 on the text searched
ConditionalOn(text) ==
    IF IfThenMatches(text)
    THEN ConditionalAnswer(IfThenMatch(text),
                           Implies(symbols(<<"A">>), symbols(<<"B">>)))
    ELSE [result      |-> <<"Could not extract conditional structure from the problem.">>,
          truth_table |-> None,
          conclusion  |-> <<"Conditional structure not found">>,
          confidence  |-> 3,
          success     |-> FALSE]

_analyze_conditional(problem) == ConditionalOn(ConditionalText(problem))

\* a categorical answer whose confidence is written in percent, which C3
\* has to reject
_analyze_categorical_percent(problem) ==
    [result      |-> <<"The problem '">> \o problem \o <<"' contains categorical statements.">>,
     truth_table |-> None,
     conclusion  |-> <<"Categorical statements require predicate logic analysis">>,
     confidence  |-> 40,
     success     |-> FALSE]

_analyze_categorical(problem) ==
    [result      |-> <<"The problem '">> \o problem
                     \o <<"' contains categorical statements (all/some/every). These are typically handled by predicate logic rather than propositional logic.">>,
     truth_table |-> None,
     conclusion  |-> <<"Categorical statements require predicate logic analysis">>,
     confidence  |-> 4,
     success     |-> FALSE]

\* the quantifier words without 'all', which C12 has to reject
QuantifierWordsWithoutAll ==
    { <<"s", "o", "m", "e">>, <<"e", "v", "e", "r", "y">>, <<"a", "n", "y">> }

\* line 365
QuantifierWords ==
    { <<"a", "l", "l">>, <<"s", "o", "m", "e">>,
      <<"e", "v", "e", "r", "y">>, <<"a", "n", "y">> }

\* a default answer that is half sure of itself, which C11 has to reject
NoClearStructureHalfSure(problem) ==
    [result      |-> <<"The problem '">> \o problem \o <<"' is unclear.">>,
     truth_table |-> None,
     conclusion  |-> <<"No clear logical structure detected">>,
     confidence  |-> 5,
     success     |-> FALSE]

\* lines 368-375: the default analysis
NoClearStructure(problem) ==
    [result      |-> <<"The problem '">> \o problem
                     \o <<"' does not contain clear logical structure that can be analyzed with propositional logic.">>,
     truth_table |-> None,
     conclusion  |-> <<"No clear logical structure detected">>,
     confidence  |-> 3,
     success     |-> FALSE]

\* the quantifier words looked for before the conditional, which C27 has to
\* reject
ConvertCategoricalFirst(problem) ==
    IF \E word \in QuantifierWords : Contains(Lower(problem), word)
    THEN _analyze_categorical(problem)
    ELSE IF MentionsIfThen(problem) THEN _analyze_conditional(problem)
    ELSE NoClearStructure(problem)

_convert_and_analyze(problem) ==
    IF MentionsIfThen(problem) THEN _analyze_conditional(problem)
    ELSE IF \E word \in QuantifierWords : Contains(Lower(problem), word)
         THEN _analyze_categorical(problem)
    ELSE NoClearStructure(problem)

\* the expression object _analyze_conditional builds, None on its failure path
ConditionalExpression(problem) ==
    IF MentionsIfThen(problem) /\ IfThenMatches(ConditionalText(problem))
    THEN Implies(symbols(<<"A">>), symbols(<<"B">>))
    ELSE None

\* lines 47-55 with the extracted statement
ReasonOn(logical_statement, problem, symbol_map) ==
    IF logical_statement # NoneStr /\ logical_statement # <<>>
    THEN _analyze_logical_statement(logical_statement, problem, symbol_map)
    ELSE Outcome(_convert_and_analyze(problem), symbol_map,
                 ConditionalExpression(problem))

reason(problem, symbol_map) ==
    ReasonOn(_extract_logical_statement(problem), problem, symbol_map)

(***************************************************************************)
(* The problems handed to reason: the statements "left connective right",  *)
(* some of them inside a wrapper, and the test inputs of the repository.   *)
(***************************************************************************)
Operands == { <<>>, <<"A">>, <<"B">> }

Connectives ==
    { <<>>, <<" ">>,
      <<cImp>>, <<" ", cImp, " ">>,
      <<cAnd>>, <<" ", cAnd, " ">>,
      <<cOr>>, <<" ", cOr, " ">>,
      <<cNot>>, <<" ", cNot, " ">>,
      <<cEqv>>, <<" ", cEqv, " ">>,
      <<" ", cOr, " ", cNot>>, <<" ", cAnd, " ", cNot>>,
      <<" ">> \o wImplies \o <<" ">>,
      <<" ">> \o wIff \o <<" ">>,
      <<" ">> \o Lower(wAnd) \o <<" ">>,
      <<" ">> \o Lower(wOr) \o <<" ">>,
      <<" ">> \o wThen \o <<" ">> }

Statements == { l \o c \o r : l \in Operands, c \in Connectives, r \in Operands }

Wrappers ==
    { << <<"I", "f", " ">>, <<>> >>,
      << <<"a", "l", "l", " ">>, <<>> >>,
      << <<"(">>, <<")">> >>,
      << <<"I", "f", " ", "a", "l", "l", " ">>, <<>> >>,
      << <<"I", "f", " ">>, <<" ", "t", "h", "e", "n", " ", "P">> >> }

WrappedStatements ==
    { <<>>, <<"A">>, <<"A", " ", cImp, " ", "B">>, <<"A", " ", cAnd, " ", "B">>,
      <<"A", " ", cNot, " ", "B">>,
      <<"A", " ", "t", "h", "e", "n", " ", "B">>, <<"A", " ", "B">> }

\* src/test_system.py (66, 70), src/run_demo.py (32), src/evaluation.py (66, 74)
\* and the statements of spec section 8 over P
SampleProblems ==
    { <<"I", "f", " ", "A", " ", "t", "h", "e", "n", " ", "B", ".", " ",
        "A", " ", "i", "s", " ", "t", "r", "u", "e", ".">>,
      <<"I", "s", " ", "P", " ", cAnd, " ", cNot, "P", " ",
        "t", "r", "u", "e", "?">>,
      <<"I", "f", " ", "A", " ", "i", "m", "p", "l", "i", "e", "s", " ", "B", "?">>,
      <<"P", " ", cOr, " ", cNot, "P">>,
      <<"P", " ", cAnd, " ", cNot, "P">>,
      <<"P", " ", cImp, " ", "A">>,
      <<"b", " ", cImp, " ", "a">> }

\* problems with several statements in them, or one statement inside another
NestedProblems ==
    { <<"(", "A", " ", cImp, " ", "B", ")", " ", cAnd, " ",
        "(", "B", " ", cImp, " ", "P", ")">>,
      <<"(", "A", " ", cOr, " ", "B", ")", " ", cImp, " ",
        "(", "B", " ", cAnd, " ", "A", ")">>,
      <<"A", " ", cAnd, " ", "B", " ", cImp, " ", "A">>,
      <<"A", " ", cImp, " ", "B", " ", cOr, " ", "A">>,
      <<"A", " ">> \o wImplies \o <<" ", "B", " ", cAnd, " ", "A">> }

Inputs ==
    Statements
    \cup { w[1] \o s \o w[2] : w \in Wrappers, s \in WrappedStatements }
    \cup SampleProblems
    \cup NestedProblems

(***************************************************************************)
(* The state machine: one LogicReasoner serving calls of reason.  A call   *)
(* is in flight from Reason to Return; problem, result and parsed_expr are *)
(* the call's argument, return value and built expression.                 *)
(***************************************************************************)
VARIABLES symbol_map, problem, result, parsed_expr, calls, nl_calls

vars == <<symbol_map, problem, result, parsed_expr, calls, nl_calls>>

MaxCalls == 2

Idle == result = None

\* the call leaves its result in flight and the cache as it made it
Returned(r) ==
    /\ symbol_map' = r.symbol_map
    /\ result' = r.value
    /\ parsed_expr' = r.parsed_expr

\* LogicReasoner.__init__
Init ==
    /\ symbol_map = <<>>
    /\ problem = NoneStr
    /\ result = None
    /\ parsed_expr = None
    /\ calls = 0
    /\ nl_calls = 0

Reason(p) ==
    /\ Idle
    /\ calls < MaxCalls
    /\ Returned(reason(p, symbol_map))
    /\ problem' = p
    /\ calls' = calls + 1
    /\ UNCHANGED nl_calls

Return ==
    /\ ~Idle
    /\ problem' = NoneStr
    /\ result' = None
    /\ parsed_expr' = None
    /\ UNCHANGED <<symbol_map, calls, nl_calls>>

Next ==
    \/ \E p \in Inputs : Reason(p)
    \/ Return

Spec == Init /\ [][Next]_vars

(***************************************************************************)
(* The evaluator and the classifier on their own: an expression built by   *)
(* SymPy's constructors over NumVars variables, two levels deep, is handed *)
(* to lines 114-127.                                                       *)
(***************************************************************************)
NumVars == 2

VarLetters == <<"A", "B", "P">>

Vars == { Symbol(<<VarLetters[i]>>) : i \in 1..NumVars }

Exprs0 == Vars \cup {BoolTrue, BoolFalse}

Built(S) ==
    S \cup { Not(x) : x \in S }
      \cup { And(<<x, y>>) : x \in S, y \in S }
      \cup { Or(<<x, y>>) : x \in S, y \in S }
      \cup { Implies(x, y) : x \in S, y \in S }

Expressions == Built(Built(Exprs0))

ExprProblems == { <<>>, wIf \o <<" ">> \o wThen }

InitExpr ==
    /\ symbol_map = <<>>
    /\ problem \in ExprProblems
    /\ result = None
    /\ parsed_expr \in Expressions
    /\ calls = 0
    /\ nl_calls = 0

Evaluate ==
    /\ Idle
    /\ result' = AnalyzeParsed(parsed_expr, problem)
    /\ UNCHANGED <<symbol_map, problem, parsed_expr, calls, nl_calls>>

\* list(expression.atoms()): a set is listed in an order of its own
Listings(S) ==
    { l \in [1..Cardinality(S) -> S] : \A i, j \in DOMAIN l : l[i] = l[j] => i = j }

\* the list left as it was listed, which C18 has to reject
SortByStrAsListed(listed) == listed

\* list.sort(key=str) puts x behind every element whose text is not greater
InsertByStr(sorted, x) ==
    LET k == Cardinality({ i \in DOMAIN sorted : ~StrLess(Str(x), Str(sorted[i])) })
    IN  SubSeq(sorted, 1, k) \o <<x>> \o SubSeq(sorted, k + 1, Len(sorted))

\* line 232: a stable sort of the list by the text of its elements
RECURSIVE SortByStr(_)
SortByStr(listed) ==
    IF listed = <<>> THEN <<>>
    ELSE InsertByStr(SortByStr(SubSeq(listed, 1, Len(listed) - 1)), listed[Len(listed)])

\* lines 229-275 for one listing of the atoms
GenerateFrom(expression, listed) ==
    IF AtomsRaises(expression) THEN <<>>
    ELSE TableOver(expression, SortByStr(listed))

\* the same expression built once more, its operands given in the other order
RECURSIVE Rebuilt(_)
Rebuilt(e) ==
    CASE e.op = "Not"     -> Not(Rebuilt(e.args[1]))
      [] e.op = "And"     -> And([i \in DOMAIN e.args |-> Rebuilt(e.args[Len(e.args) + 1 - i])])
      [] e.op = "Or"      -> Or([i \in DOMAIN e.args |-> Rebuilt(e.args[Len(e.args) + 1 - i])])
      [] e.op = "Implies" -> Implies(Rebuilt(e.args[1]), Rebuilt(e.args[2]))
      [] OTHER            -> e

RegenerateOn(expression) ==
    \E listed \in Listings(atoms(expression)) :
        result' = [result EXCEPT !.truth_table = GenerateFrom(expression, listed)]

\* _generate_truth_table called once more on an equal expression
Regenerate ==
    /\ ~Idle
    /\ calls < MaxCalls
    /\ RegenerateOn(Rebuilt(parsed_expr))
    /\ calls' = calls + 1
    /\ UNCHANGED <<symbol_map, problem, parsed_expr, nl_calls>>

NextExpr == Evaluate \/ Regenerate

SpecExpr == InitExpr /\ [][NextExpr]_vars

(***************************************************************************)
(* The controller: src/utils.py and src/integration.py.  validate_input,   *)
(* the choice of a reasoning mode, and process_text with both reasoners.*)
(***************************************************************************)
\* a Python string literal as a text of characters
Chars(s) == [i \in 1..Len(s) |-> SubSeq(s, i, i)]

\* a text of fragments as one text of characters
RECURSIVE Flat(_)
Flat(t) ==
    IF t = <<>> THEN <<>>
    ELSE (IF IsSymbolOp(Head(t)) THEN <<Head(t)>> ELSE Chars(Head(t))) \o Flat(Tail(t))

\* any(word in text for word in words)
ContainsAny(text, words) == \E w \in words : Contains(text, Chars(w))

\* src/utils.py, lines 190 and 196
MinLength == 5
MaxLength == 2000

\* validation that lets a text of MinLength - 1 characters pass, which C20
\* has to reject
validate_input_lenient(text) ==
    IF text = <<>> \/ Len(Strip(text, Whitespace)) < MinLength - 1
    THEN [valid |-> FALSE,
          error |-> <<"Input too short. Please provide a more detailed problem.">>]
    ELSE IF Len(text) > MaxLength
    THEN [valid |-> FALSE,
          error |-> <<"Input too long. Please limit to 2000 characters.">>]
    ELSE [valid |-> TRUE, error |-> NoneStr]

\* src/utils.py, lines 180-202
validate_input(text) ==
    IF text = <<>> \/ Len(Strip(text, Whitespace)) < MinLength
    THEN [valid |-> FALSE,
          error |-> <<"Input too short. Please provide a more detailed problem.">>]
    ELSE IF Len(text) > MaxLength
    THEN [valid |-> FALSE,
          error |-> <<"Input too long. Please limit to 2000 characters.">>]
    ELSE [valid |-> TRUE, error |-> NoneStr]

\* src/utils.py, line 44: the symbols of formal logic, the five operators and
\* the horseshoe, the two quantifiers and the two turnstiles
FormalSymbols == {cImp, cAnd, cOr, cNot, "u2283", cEqv, "u2200", "u2203", "u22A2", "u22A8"}

\* src/utils.py, lines 25-59 on the text and its lower-case form
DetectOn(text, text_lower) ==
    [logical_connectives |->
        ContainsAny(text_lower,
            {"if", "then", "implies", "therefore", "thus", "hence", "consequently",
             "all", "some", "every", "any", "none", "not all", "some not",
             "and", "or", "not", "but", "however", "although", "unless",
             "only if", "if and only if", "necessary", "sufficient"}),
     quantifiers |->
        ContainsAny(text_lower,
            {"all", "some", "every", "any", "none", "most", "few", "many"}),
     conditionals |->
        ContainsAny(text_lower,
            {"if ", "when ", "unless ", "provided that", "given that"}),
     formal_logic |-> \E i \in DOMAIN text : text[i] \in FormalSymbols,
     questions |->
        ContainsAny(text_lower,
            {"is ", "are ", "can ", "will ", "does ", "do ", "what ", "how ",
             "why ", "which ", "who ", "where ", "when "})]

detect_logical_keywords(text) == DetectOn(text, Lower(text))

\* min and max of Python
Min(a, b) == IF a < b THEN a ELSE b
Max(a, b) == IF a > b THEN a ELSE b

Tenths(b, n) == IF b THEN n ELSE 0

\* src/integration.py, lines 133-158, in tenths.  The float sum 0.4 + 0.3 +
\* 0.1 is 0.7999999999999999, below the threshold 0.8: it counts as 7.
LogicConfidenceOf(features, proves, symbolic) ==
    IF /\ features.formal_logic /\ features.logical_connectives
       /\ features.quantifiers /\ ~features.conditionals
       /\ ~proves /\ ~symbolic
    THEN 7
    ELSE Min(10, Tenths(features.formal_logic, 4)
                 + Tenths(features.logical_connectives, 3)
                 + Tenths(features.conditionals, 2)
                 + Tenths(features.quantifiers, 1)
                 + Tenths(proves, 2)
                 + Tenths(symbolic, 3))

_calculate_logic_confidence(features, text) ==
    LogicConfidenceOf(features,
                      ContainsAny(Lower(text), {"prove", "show"}),
                      \E i \in DOMAIN text : IsSymbolOp(text[i]))

\* src/integration.py, lines 160-188, in tenths
_calculate_nl_confidence(features, text) ==
    Max(0, Min(10, 5 + Tenths(features.questions, 3)
                     + Tenths(Len(SplitWhitespace(text)) > 10, 1)
                     + Tenths(ContainsAny(Lower(text),
                                  {"john", "mary", "student", "teacher", "person"}), 2)
                     - Tenths(features.formal_logic, 2)))

\* src/integration.py, lines 98-118: the thresholds 0.8, 0.6 and 0.3
ModeOf(logic_confidence, nl_confidence) ==
    IF logic_confidence >= 8
    THEN [mode |-> <<"Logic Only">>,
          explanation |-> <<"High confidence in logical structure detected. Using formal logic reasoning.">>]
    ELSE IF logic_confidence >= 6 /\ nl_confidence >= 6
    THEN [mode |-> <<"Dual Mode">>,
          explanation |-> <<"Both logical structure and natural language patterns detected. Using both reasoning approaches.">>]
    ELSE IF logic_confidence >= 3
    THEN [mode |-> <<"Dual Mode">>,
          explanation |-> <<"Some logical elements detected. Using dual mode for comprehensive analysis.">>]
    ELSE [mode |-> <<"Natural Language Only">>,
          explanation |-> <<"No clear logical structure detected. Using natural language reasoning.">>]

SelectionOf(features, logic_confidence, nl_confidence) ==
    [mode             |-> ModeOf(logic_confidence, nl_confidence).mode,
     explanation      |-> ModeOf(logic_confidence, nl_confidence).explanation,
     logic_confidence |-> logic_confidence,
     nl_confidence    |-> nl_confidence,
     features         |-> features]

SelectOn(features, text) ==
    SelectionOf(features, _calculate_logic_confidence(features, text),
                _calculate_nl_confidence(features, text))

\* src/integration.py, lines 82-125
_select_reasoning_mode(text) == SelectOn(detect_logical_keywords(text), text)

(***************************************************************************)
(* The natural-language reasoner: src/natural_language.py.  The reply of   *)
(* the language model is an input; the empty reply stands for a model that *)
(* is not available or gave nothing in three attempts.                     *)
(***************************************************************************)
\* s.find(sub), 0-based, for a text that contains sub
Find(s, sub) == CHOOSE i \in 0..Len(s) : StartsAt(s, sub, i) /\ \A k \in 0..(i - 1) : ~StartsAt(s, sub, k)

\* s.split(c) for one character c
RECURSIVE SplitChar(_, _)
SplitChar(s, c) ==
    IF \E i \in DOMAIN s : s[i] = c
    THEN <<SubSeq(s, 1, Find(s, <<c>>))>> \o SplitChar(SubSeq(s, Find(s, <<c>>) + 2, Len(s)), c)
    ELSE <<s>>

\* lines 252-294
_fallback_reasoning(text) ==
    IF Contains(Lower(text), wIf) /\ Contains(Lower(text), wThen)
    THEN [result |-> <<"Based on the conditional statement in the problem: '">> \o text
                     \o <<"', I can analyze the logical structure. However, without access to the reasoning model, I can only provide a basic analysis.">>,
          conclusion |-> <<"Conditional logic detected - requires formal analysis">>,
          confidence |-> 3,
          reasoning_type |-> <<"fallback">>,
          success |-> FALSE]
    ELSE IF ContainsAny(Lower(text), {"is", "are", "can", "will", "does", "do"})
    THEN [result |-> <<"The problem appears to be a question: '">> \o text
                     \o <<"'. This requires detailed analysis which I cannot provide without the reasoning model.">>,
          conclusion |-> <<"Question format detected - requires reasoning analysis">>,
          confidence |-> 2,
          reasoning_type |-> <<"fallback">>,
          success |-> FALSE]
    ELSE [result |-> <<"I cannot provide detailed reasoning for: '">> \o text
                     \o <<"' without access to the reasoning model. Please check your API configuration.">>,
          conclusion |-> <<"Unable to analyze - API not available">>,
          confidence |-> 1,
          reasoning_type |-> <<"fallback">>,
          success |-> FALSE]

\* lines 147-150
conclusion_indicators ==
    <<"conclusion:", "final answer:", "answer:", "result:",
      "therefore:", "thus:", "hence:", "in conclusion:">>

\* lines 155-160: the first sentence behind the indicator
SentenceAfter(response, start_idx) ==
    Strip(SplitChar(Strip(SubSeq(response, start_idx + 1, Len(response)), Whitespace), ".")[1],
          Whitespace)

\* lines 163-167
LastSentence(response, sentences) ==
    IF Len(sentences) > 1
    THEN Strip(sentences[Len(sentences) - 1], Whitespace) \o <<".">>
    ELSE IF Len(response) > 200 THEN SubSeq(response, 1, 200) \o <<"...">>
    ELSE response

\* lines 136-167
_extract_conclusion(response) ==
    IF \E k \in DOMAIN conclusion_indicators :
          Contains(Lower(response), Chars(conclusion_indicators[k]))
    THEN LET k == CHOOSE k \in DOMAIN conclusion_indicators :
                    /\ Contains(Lower(response), Chars(conclusion_indicators[k]))
                    /\ \A j \in 1..(k - 1) :
                          ~Contains(Lower(response), Chars(conclusion_indicators[j]))
         IN  SentenceAfter(response,
                           Find(Lower(response), Chars(conclusion_indicators[k]))
                             + Len(conclusion_indicators[k]))
    ELSE LastSentence(response, SplitChar(response, "."))

\* lines 169-195, in tenths
_calculate_confidence(response, reasoning_type) ==
    Min(10, Max(0, 7 + (IF Len(response) > 100 THEN 1
                        ELSE IF Len(response) < 50 THEN -2 ELSE 0)
                     + Tenths(ContainsAny(Lower(response),
                                  {"step", "conclusion", "therefore", "thus"}), 1)
                     + Tenths(reasoning_type = <<"logical">>, 1)))

ProcessedResponse(cleaned_response, reasoning_type) ==
    [result |-> cleaned_response,
     conclusion |-> _extract_conclusion(cleaned_response),
     confidence |-> _calculate_confidence(cleaned_response, reasoning_type),
     reasoning_type |-> reasoning_type,
     success |-> TRUE]

\* lines 109-135
_process_response(response_text, reasoning_type) ==
    ProcessedResponse(Strip(response_text, Whitespace), reasoning_type)

\* NaturalLanguageReasoner.reason, lines 68-107
nl_reason(text, reasoning_type, response_text) ==
    IF response_text = <<>> THEN _fallback_reasoning(text)
    ELSE _process_response(response_text, reasoning_type)

(***************************************************************************)
(* DualModalityController: src/integration.py.                             *)
(***************************************************************************)
\* len(text.strip()) of a text of fragments
StrippedLen(t) == Len(Strip(Flat(t), {" ", "\n"}))

\* src/utils.py, lines 80-96, in tenths
calculate_confidence_score(nl_result, logic_result, mode_agreement, internal_consistency) ==
    Max(0, Min(10, 5 + Tenths(mode_agreement, 3)
                     + Tenths(internal_consistency, 2)
                     - Tenths(StrippedLen(nl_result) < 10, 2)
                     - Tenths(StrippedLen(logic_result) < 5, 1)))

\* lines 288-301 on the two conclusions in lower case
AgreementOf(nl_conclusion, logic_conclusion) ==
    IF /\ ContainsAny(nl_conclusion, {"true", "false", "yes", "no", "correct", "incorrect"})
       /\ ContainsAny(logic_conclusion, {"true", "false", "yes", "no", "correct", "incorrect"})
    THEN ContainsAny(nl_conclusion, {"true", "yes", "correct"})
           = ContainsAny(logic_conclusion, {"true", "yes", "correct"})
    ELSE TRUE

\* lines 271-301
_check_mode_agreement(nl_result, logic_result) ==
    IF ~nl_result.success \/ ~logic_result.success THEN FALSE
    ELSE AgreementOf(Lower(Flat(nl_result.conclusion)), Lower(Flat(logic_result.conclusion)))

\* lines 303-346
_combine_results(nl_result, logic_result, agreement) ==
    <<"Dual Modality Analysis:\n\n">>
    \o (IF nl_result.success
        THEN <<"Natural Language Reasoning:\n">> \o nl_result.result \o <<"\n\n">>
        ELSE <<>>)
    \o (IF logic_result.success
        THEN <<"Logic Reasoning:\n">> \o logic_result.result \o <<"\n\n">>
        ELSE <<>>)
    \o (IF agreement
        THEN <<"The two reasoning approaches agree on the conclusion.\n">>
        ELSE <<"The two reasoning approaches show different perspectives.\n">>)
    \o (IF nl_result.success /\ logic_result.success
        THEN (IF agreement
              THEN <<"\nFinal Conclusion: ">> \o nl_result.conclusion
              ELSE <<"\nNatural Language Conclusion: ">> \o nl_result.conclusion
                   \o <<"\n", "Logic Conclusion: ">> \o logic_result.conclusion)
        ELSE IF nl_result.success
        THEN <<"\nFinal Conclusion: ">> \o nl_result.conclusion
        ELSE IF logic_result.success
        THEN <<"\nFinal Conclusion: ">> \o logic_result.conclusion
        ELSE <<"\nUnable to reach a definitive conclusion through either reasoning approach.">>)

\* lines 348-370
_generate_dual_conclusion(nl_result, logic_result, agreement) ==
    IF agreement
    THEN (IF nl_result.success THEN nl_result.conclusion
          ELSE IF logic_result.success THEN logic_result.conclusion
          ELSE <<"Unable to determine conclusion">>)
    ELSE <<"Mixed results: NL suggests ">>
         \o (IF nl_result.success THEN nl_result.conclusion ELSE <<"N/A">>)
         \o <<", Logic suggests ">>
         \o (IF logic_result.success THEN logic_result.conclusion ELSE <<"N/A">>)

\* what a _process_ method hands back: the dict, the cache and the expression
\* the logic reasoner leaves, and the calls made to each reasoner
Processed(value, cache, expression, nl, logic) ==
    [value |-> value, symbol_map |-> cache, parsed_expr |-> expression,
     nl_calls |-> nl, logic_calls |-> logic]

NlOnlyDict(nl_result) ==
    [mode            |-> <<"Natural Language Only">>,
     natural_language |-> nl_result,
     logic_reasoning |-> None,
     combined_result |-> nl_result.result,
     confidence      |-> nl_result.confidence,
     conclusion      |-> nl_result.conclusion]

\* lines 190-210
_process_nl_only(text, cache, response_text) ==
    Processed(NlOnlyDict(nl_reason(text, <<"general">>, response_text)), cache, None, 1, 0)

LogicOnlyDict(logic_result) ==
    [mode            |-> <<"Logic Only">>,
     natural_language |-> None,
     logic_reasoning |-> logic_result,
     combined_result |-> logic_result.result,
     confidence      |-> logic_result.confidence,
     conclusion      |-> logic_result.conclusion]

LogicOnlyOn(r) == Processed(LogicOnlyDict(r.value), r.symbol_map, r.parsed_expr, 0, 1)

\* lines 212-231
_process_logic_only(text, cache) == LogicOnlyOn(reason(text, cache))

DualDict(nl_result, logic_result, mode_agreement) ==
    [mode            |-> <<"Dual Mode">>,
     natural_language |-> nl_result,
     logic_reasoning |-> logic_result,
     combined_result |-> _combine_results(nl_result, logic_result, mode_agreement),
     confidence      |-> calculate_confidence_score(
                             IF nl_result.success THEN nl_result.result ELSE <<>>,
                             IF logic_result.success THEN logic_result.result ELSE <<>>,
                             mode_agreement,
                             nl_result.success /\ logic_result.success),
     conclusion      |-> _generate_dual_conclusion(nl_result, logic_result, mode_agreement),
     mode_agreement  |-> mode_agreement]

DualOn(nl_result, r) ==
    Processed(DualDict(nl_result, r.value, _check_mode_agreement(nl_result, r.value)),
              r.symbol_map, r.parsed_expr, 1, 1)

\* lines 233-269
_process_dual_mode(text, cache, response_text) ==
    DualOn(nl_reason(text, <<"logical">>, response_text), reason(text, cache))

\* lines 68-72: the mode selection and success = True are added to the dict
Succeeded(r, mode_selection) ==
    [r EXCEPT !.value = r.value @@ [mode_selection |-> mode_selection, success |-> TRUE]]

\* lines 57-72
ProcessBy(mode_selection, text, cache, response_text) ==
    IF mode_selection.mode = <<"Natural Language Only">>
    THEN Succeeded(_process_nl_only(text, cache, response_text), mode_selection)
    ELSE IF mode_selection.mode = <<"Logic Only">>
    THEN Succeeded(_process_logic_only(text, cache), mode_selection)
    ELSE Succeeded(_process_dual_mode(text, cache, response_text), mode_selection)

\* lines 49-55
Validated(validation, text, cache, response_text) ==
    IF ~validation.valid
    THEN Processed([error |-> validation.error, success |-> FALSE], cache, None, 0, 0)
    ELSE ProcessBy(_select_reasoning_mode(text), text, cache, response_text)

\* a dict that takes over the success of the logic reasoner it holds
WithReasonerSuccess(r) ==
    IF "logic_reasoning" \in DOMAIN r.value /\ r.value.logic_reasoning # None
    THEN [r EXCEPT !.value.success = r.value.logic_reasoning.success]
    ELSE r

\* process_problem handing on the success of the logic reasoner, which C30
\* has to reject
ProcessWithReasonerSuccess(text, cache, response_text) ==
    WithReasonerSuccess(Validated(validate_input(text), text, cache, response_text))

\* DualModalityController.process_problem, lines 39-80
process_problem(text, cache, response_text) ==
    Validated(validate_input(text), text, cache, response_text)

\* a text of n letters
Pad(n) == [i \in 1..n |-> "a"]

\* the replies of the language model
Responses ==
    { <<>>, Chars("yes"), Chars("the answer: A is true. done."),
      Chars("It is not so. It is false. ") }

\* the texts handed to process_problem: texts around the shortest length that
\* is let through, texts around the greatest, and texts for each mode
ProcessInputs ==
    { <<>>, Chars("Hi"), Chars("      "), Chars("abed"), Chars(" abed "),
      Chars("abeda"), Chars("abe a"), <<"A", " ", cImp, " ", "B">>,
      <<" ", "A", cImp, "B", " ">>, Chars("all A"), Chars("If A then B"),
      <<"I", "f", " ", "A", " ", cImp, " ", "B">>, Chars("Is A and B true?"),
      Pad(MaxLength), Pad(MaxLength + 1), Pad(MaxLength) \o <<" ">>,
      <<"A", " ", cImp, " ", "B", " ">> \o Pad(MaxLength - 6) }

ProcessReturned(r) ==
    /\ symbol_map' = r.symbol_map
    /\ result' = r.value
    /\ parsed_expr' = r.parsed_expr
    /\ calls' = calls + r.logic_calls
    /\ nl_calls' = nl_calls + r.nl_calls

\* one call of process_problem, with the reply the language model would give
Process(p, response_text) ==
    /\ Idle
    /\ calls < MaxCalls
    /\ nl_calls < MaxCalls
    /\ ProcessReturned(process_problem(p, symbol_map, response_text))
    /\ problem' = p

NextProcess ==
    \/ \E p \in ProcessInputs : \E response_text \in Responses : Process(p, response_text)
    \/ Return

SpecProcess == Init /\ [][NextProcess]_vars

(***************************************************************************)
(* The builder on its own: _parse_statement called on statements of one or *)
(* two operators, the second call finding the variables in the cache.      *)
(***************************************************************************)
ParseOperands == { <<"A">>, <<"B">>, <<"(", "A", ")">> }

ParseOperators == { <<cImp>>, <<cAnd>>, <<cOr>>, <<cNot>> }

OneOperator ==
    { l \o <<" ">> \o o \o <<" ">> \o r :
        l \in ParseOperands, o \in ParseOperators, r \in ParseOperands }

TwoOperators ==
    { l \o <<" ">> \o o \o <<" ">> \o r :
        l \in {<<"A">>, <<"B">>}, o \in ParseOperators, r \in OneOperator }

ParseStatements == OneOperator \cup TwoOperators

InitParse ==
    /\ symbol_map = <<>>
    /\ problem \in ParseStatements
    /\ result = None
    /\ parsed_expr = None
    /\ calls = 0
    /\ nl_calls = 0

ParsedTo(r) ==
    /\ parsed_expr' = r.value
    /\ symbol_map' = r.symbol_map

\* one call of _parse_statement on the statement
Parse ==
    /\ calls < MaxCalls
    /\ ParsedTo(_parse_statement(problem, symbol_map))
    /\ calls' = calls + 1
    /\ UNCHANGED <<problem, result, nl_calls>>

\* one call of _analyze_logical_statement on the statement
Analyze ==
    /\ Idle
    /\ calls < MaxCalls
    /\ Returned(_analyze_logical_statement(problem, problem, symbol_map))
    /\ calls' = calls + 1
    /\ UNCHANGED <<problem, nl_calls>>

NextParse == Parse \/ Analyze

SpecParse == InitParse /\ [][NextParse]_vars

(***************************************************************************)
(* Properties.  A result is looked at while it is in flight, between the   *)
(* call that produced it and its return.                                   *)
(***************************************************************************)
InFlight == result # None

\* the variables of an expression: its Symbol leaves
Variables(e) == { a \in AtomsOf(e) : a.op = "Symbol" }

\* an expression tree: variables and constants under Not, And, Or, Implies
RECURSIVE IsExpression(_)
IsExpression(e) ==
    \/ e.op \in {"Symbol", "true", "false"}
    \/ /\ e.op \in {"Not", "And", "Or", "Implies"}
       /\ \A i \in DOMAIN e.args : IsExpression(e.args[i])

\* the truth value of an expression tree under an assignment of its variables
RECURSIVE TrueUnder(_, _)
TrueUnder(e, m) ==
    IF e.op = "Symbol" THEN m[e]
    ELSE IF e.op = "true" THEN TRUE
    ELSE IF e.op = "false" THEN FALSE
    ELSE IF e.op = "Not" THEN ~TrueUnder(e.args[1], m)
    ELSE IF e.op = "And" THEN \A i \in DOMAIN e.args : TrueUnder(e.args[i], m)
    ELSE IF e.op = "Or" THEN \E i \in DOMAIN e.args : TrueUnder(e.args[i], m)
    ELSE (~TrueUnder(e.args[1], m)) \/ TrueUnder(e.args[2], m)

Assignments(e) == [Variables(e) -> BOOLEAN]

HasTable == InFlight /\ result.truth_table # None

\* the columns of a row before Result, as <<name, value>> pairs
VariablePart(row) == SubSeq(row, 1, Len(row) - 1)

ResultOf(row) == row[Len(row)][2]

pyTrue  == [type |-> "bool", repr |-> <<"T", "r", "u", "e">>]
pyFalse == [type |-> "bool", repr |-> <<"F", "a", "l", "s", "e">>]

TautologyConclusion     == <<"The statement is always true (tautology).">>
ContingencyConclusion   == <<"The statement depends on the truth values of its components.">>
ContradictionConclusion == <<"The statement is always false (contradiction).">>

pAimpliesA == <<"A", " ", cImp, " ", "A">>
pAnotB     == <<"A", " ", cNot, " ", "B">>
pAimpliesB == <<"A", " ", cImp, " ", "B">>
pAandB     == <<"A", " ", cAnd, " ", "B">>
pAorB      == <<"A", " ", cOr, " ", "B">>
pPorNotP   == <<"P", " ", cOr, " ", cNot, "P">>
pPandNotP  == <<"P", " ", cAnd, " ", cNot, "P">>
pIfAthenB  == <<"I", "f", " ", "A", " ", "t", "h", "e", "n", " ", "B">>

\* C1: the table of an expression with n >= 1 distinct variables has exactly
\* 2^n rows, no two of them with the same tuple of variable values, and the
\* table of an expression without variables has no rows.
C1_TableHasTwoToTheNRows ==
    (HasTable /\ parsed_expr # None /\ IsExpression(parsed_expr)) =>
        LET n == Cardinality(Variables(parsed_expr))
            t == result.truth_table
        IN  IF n = 0 THEN Len(t) = 0
            ELSE /\ Len(t) = 2 ^ n
                 /\ \A i \in DOMAIN t : \A k \in DOMAIN t :
                        i # k => VariablePart(t[i]) # VariablePart(t[k])

\* C2: for a successfully analysed expression with at least one variable the
\* classification agrees with the returned table: it is classified
\* satisfiable exactly when some row has Result = true, and a tautology
\* exactly when no row has Result = false.
C2_ClassificationAgreesWithTable ==
    (/\ HasTable
     /\ result.success
     /\ parsed_expr # None
     /\ Variables(parsed_expr) # {}
     /\ result.conclusion \in {TautologyConclusion, ContingencyConclusion,
                               ContradictionConclusion}) =>
        LET t == result.truth_table
        IN  /\ (result.conclusion \in {TautologyConclusion, ContingencyConclusion})
                 <=> (\E i \in DOMAIN t : ResultOf(t[i]) = pyTrue)
            /\ (result.conclusion = TautologyConclusion)
                 <=> ~(\E i \in DOMAIN t : ResultOf(t[i]) = pyFalse)

\* C3: reason never raises: whatever the input, it returns a record with the
\* fields result, truth_table, conclusion, confidence and success, whose
\* confidence lies in [0, 1] (0..10 tenths) and whose success is a boolean.
C3_ReasonReturnsWellFormedRecord ==
    InFlight =>
        /\ "op" \notin DOMAIN result          \* a dict, not a raised exception
        /\ {"result", "truth_table", "conclusion", "confidence", "success"}
               \subseteq DOMAIN result
        /\ result.confidence \in 0..10
        /\ result.success \in BOOLEAN

\* an input without logical structure comes back as a failure record
C3_Witness ==
    /\ InFlight
    /\ problem = <<>>
    /\ ~result.success
    /\ result.truth_table = None

\* the n binary digits of k, most significant first
RECURSIVE Digits(_, _)
Digits(k, n) == IF n = 0 THEN <<>> ELSE Append(Digits(k \div 2, n - 1), k % 2)

\* ks lists the variable names of e in increasing lexicographic order
IsSortedNamesOf(ks, e) ==
    /\ Len(ks) = Cardinality(Variables(e))
    /\ Range(ks) = { v.name : v \in Variables(e) }
    /\ \A a \in DOMAIN ks : \A b \in DOMAIN ks : a < b => StrLess(ks[a], ks[b])

\* C4: row i (from 0) gives the j-th variable, in lexicographically sorted
\* name order, the j-th bit of i written most significant bit first in n
\* digits; the columns are the sorted variable names followed by Result, the
\* first row is all false and the last all true.
C4_RowIsBinaryOfIndex ==
    (/\ HasTable
     /\ parsed_expr # None
     /\ Variables(parsed_expr) # {}
     /\ result.truth_table # <<>>) =>
        LET t == result.truth_table
            n == Cardinality(Variables(parsed_expr))
        IN  /\ \A i \in DOMAIN t :
                  /\ Len(t[i]) = n + 1
                  /\ IsSortedNamesOf(SubSeq(DictKeys(t[i]), 1, n), parsed_expr)
                  /\ DictKeys(t[i])[n + 1] = kResult
                  /\ \A j \in 1..n :
                        t[i][j][2] = (IF Digits(i - 1, n)[j] = 1 THEN pyTrue ELSE pyFalse)
            /\ \A j \in 1..n : t[1][j][2] = pyFalse
            /\ \A j \in 1..n : t[Len(t)][j][2] = pyTrue

\* the third row of a two-variable table reads A true, B false
C4_Witness ==
    /\ HasTable
    /\ Len(result.truth_table) = 4
    /\ VariablePart(result.truth_table[3]) = << << <<"A">>, pyTrue >>, << <<"B">>, pyFalse >> >>

Letters == Range(UpperLetters) \cup Range(LowerLetters) \cup Range(OtherLower)

Spacing == { <<>>, <<" ">> }

Binary(x, sp, op, y) == <<x>> \o sp \o <<op>> \o sp \o <<y>>

Left(p)  == p[1]
Right(p) == p[Len(p)]

\* p is 'X op Y' for two different single letters X and Y
IsBinary(p, op) ==
    \E sp \in Spacing :
        /\ Len(p) = 3 + 2 * Len(sp)
        /\ Left(p) \in Letters
        /\ Right(p) \in Letters
        /\ Left(p) # Right(p)
        /\ p = Binary(Left(p), sp, op, Right(p))

RowAB(a, b, r) == << << <<"A">>, a >>, << <<"B">>, b >>, << kResult, r >> >>

\* a four-row table over x and y whose Result column is R(x's value, y's value)
IsTableOf(t, x, y, R(_, _)) ==
    /\ t # None
    /\ Len(t) = 4
    /\ \A a \in {pyTrue, pyFalse} : \A b \in {pyTrue, pyFalse} :
          \E i \in DOMAIN t : DictGet(t[i], <<x>>) = a /\ DictGet(t[i], <<y>>) = b
    /\ \A i \in DOMAIN t :
          ResultOf(t[i]) = (IF R(DictGet(t[i], <<x>>) = pyTrue, DictGet(t[i], <<y>>) = pyTrue)
                            THEN pyTrue ELSE pyFalse)

\* C5: the table of 'X -> Y' over two different single-letter variables has
\* four rows and Result = false exactly where X is true and Y is false; for
\* 'A -> B' the rows are (F,F,T), (F,T,T), (T,F,F), (T,T,T).
C5_ImplicationTable ==
    /\ (InFlight /\ IsBinary(problem, cImp)) =>
          /\ result.success
          /\ IsTableOf(result.truth_table, Left(problem), Right(problem),
                       LAMBDA a, b : ~(a /\ ~b))
    /\ (InFlight /\ problem = pAimpliesB) =>
          result.truth_table = << RowAB(pyFalse, pyFalse, pyTrue), RowAB(pyFalse, pyTrue, pyTrue),
                                  RowAB(pyTrue, pyFalse, pyFalse), RowAB(pyTrue, pyTrue, pyTrue) >>

C5_Witness ==
    /\ InFlight
    /\ problem = pAimpliesB
    /\ result.truth_table[3] = RowAB(pyTrue, pyFalse, pyFalse)

\* C6: over two different single-letter variables 'X and Y' has Result = true
\* in exactly one of its four rows, the one where both are true, and 'X or Y'
\* has Result = false in exactly one, the one where both are false.
C6_ConjunctionAndDisjunctionTables ==
    /\ (InFlight /\ IsBinary(problem, cAnd)) =>
          /\ result.success
          /\ IsTableOf(result.truth_table, Left(problem), Right(problem),
                       LAMBDA a, b : a /\ b)
          /\ Cardinality({ i \in DOMAIN result.truth_table :
                              ResultOf(result.truth_table[i]) = pyTrue }) = 1
    /\ (InFlight /\ IsBinary(problem, cOr)) =>
          /\ result.success
          /\ IsTableOf(result.truth_table, Left(problem), Right(problem),
                       LAMBDA a, b : a \/ b)
          /\ Cardinality({ i \in DOMAIN result.truth_table :
                              ResultOf(result.truth_table[i]) = pyFalse }) = 1

C6_Witness ==
    /\ InFlight
    /\ problem = pAandB
    /\ result.truth_table[4] = RowAB(pyTrue, pyTrue, pyTrue)
    /\ result.truth_table[3] = RowAB(pyTrue, pyFalse, pyFalse)

\* C7: the law of the excluded middle, 'P or not P', is classified a
\* tautology with confidence 0.9 and success = true, and both rows of its
\* table have Result = true.
C7_ExcludedMiddleIsTautology ==
    (InFlight /\ problem = pPorNotP) =>
        /\ result.success
        /\ result.conclusion = TautologyConclusion
        /\ result.confidence = 9
        /\ result.truth_table # None
        /\ Len(result.truth_table) = 2
        /\ \A i \in DOMAIN result.truth_table : ResultOf(result.truth_table[i]) = pyTrue

\* C8: 'P and not P' is classified a contradiction with confidence 0.9 and
\* both rows of its table have Result = false.
C8_NonContradictionIsContradiction ==
    (InFlight /\ problem = pPandNotP) =>
        /\ result.conclusion = ContradictionConclusion
        /\ result.confidence = 9
        /\ result.truth_table # None
        /\ Len(result.truth_table) = 2
        /\ \A i \in DOMAIN result.truth_table : ResultOf(result.truth_table[i]) = pyFalse

IsTautology(e)     == \A m \in Assignments(e) : TrueUnder(e, m)
IsContradiction(e) == \A m \in Assignments(e) : ~TrueUnder(e, m)
IsContingency(e)   == ~IsTautology(e) /\ ~IsContradiction(e)

\* C9: for an expression with at least one variable exactly one of the three
\* classes applies and the classifier's answer depends on the class only: a
\* tautology gets 'always true (tautology)' with confidence 0.9, a contingency
\* 'depends on the truth values of its components' with 0.7, a contradiction
\* 'always false (contradiction)' with 0.9.
C9_ClassifierAnswersByClass ==
    (InFlight /\ parsed_expr # None /\ IsExpression(parsed_expr)
              /\ Variables(parsed_expr) # {}) =>
        LET e == parsed_expr
        IN  /\ Cardinality({ c \in {"tautology", "contingency", "contradiction"} :
                               \/ c = "tautology" /\ IsTautology(e)
                               \/ c = "contingency" /\ IsContingency(e)
                               \/ c = "contradiction" /\ IsContradiction(e) }) = 1
            /\ IsTautology(e) =>
                  result.conclusion = TautologyConclusion /\ result.confidence = 9
            /\ IsContingency(e) =>
                  result.conclusion = ContingencyConclusion /\ result.confidence = 7
            /\ IsContradiction(e) =>
                  result.conclusion = ContradictionConclusion /\ result.confidence = 9

\* a tautology over a variable has been classified
C9_Witness ==
    /\ InFlight
    /\ Variables(parsed_expr) # {}
    /\ IsTautology(parsed_expr)
    /\ result.conclusion = TautologyConclusion

\* the text has 'if', whitespace, an antecedent, whitespace, 'then',
\* whitespace and a consequent, in any letter case
ReadsIfThen(p) ==
    LET l == Lower(p)
    IN  \E i \in 1..Len(l) : \E j \in (i + 5)..Len(l) :
            /\ SubSeq(l, i, i + 1) = wIf
            /\ l[i + 2] = " "
            /\ l[j - 1] = " "
            /\ j + 5 <= Len(l)
            /\ SubSeq(l, j, j + 3) = wThen
            /\ l[j + 4] = " "

\* C10: an input without a formal-symbol statement that reads 'if ... then
\* ...' is answered by the conditional fallback with success = true and the
\* four-row table of Implies(A, B): Result = false only for A true, B false.
C10_ConditionalFallback ==
    (InFlight /\ _extract_logical_statement(problem) = NoneStr /\ ReadsIfThen(problem)) =>
        /\ result.success
        /\ result.truth_table = << RowAB(pyFalse, pyFalse, pyTrue), RowAB(pyFalse, pyTrue, pyTrue),
                                   RowAB(pyTrue, pyFalse, pyFalse), RowAB(pyTrue, pyTrue, pyTrue) >>

C10_Witness ==
    /\ InFlight
    /\ problem = pIfAthenB
    /\ result.success
    /\ Len(result.truth_table) = 4

\* the text holds an operator symbol or an operator word
HasOperator(p) ==
    \/ \E i \in DOMAIN p : p[i] \in {cImp, cAnd, cOr, cNot, cEqv}
    \/ \E w \in {Lower(wAnd), Lower(wOr), Lower(wNot), wImplies, wIff} :
          Contains(Lower(p), w)

\* the text holds a letter that stands alone
HasSingleLetterAtom(p) ==
    \E i \in DOMAIN p :
        /\ IsLetter(p[i])
        /\ (i = 1 \/ ~IsLetter(p[i - 1]))
        /\ (i = Len(p) \/ ~IsLetter(p[i + 1]))

HasQuantifierWord(p) ==
    \E w \in { <<"a", "l", "l">>, <<"s", "o", "m", "e">>,
               <<"e", "v", "e", "r", "y">>, <<"a", "n", "y">> } :
        Contains(Lower(p), w)

\* C11: a malformed input, with no operator, no single-letter atom, no
\* if ... then conditional and no quantifier word (the empty text is one),
\* comes back with success = false, a confidence of at most 0.3, no truth
\* table and an explanation text.
C11_MalformedInputFails ==
    (/\ InFlight
     /\ ~HasOperator(problem)
     /\ ~HasSingleLetterAtom(problem)
     /\ ~ReadsIfThen(problem)
     /\ ~HasQuantifierWord(problem)) =>
        /\ "op" \notin DOMAIN result
        /\ result.success = FALSE
        /\ result.confidence <= 3
        /\ result.truth_table = None
        /\ result.result # <<>>

\* a word of two letters has been answered
C11_Witness ==
    /\ InFlight
    /\ problem = <<"A", "B">>
    /\ result.confidence = 3
    /\ result.truth_table = None

\* the text holds a binary operator, as a symbol or as a word
HasBinaryOperator(p) ==
    \/ \E i \in DOMAIN p : p[i] \in {cImp, cAnd, cOr, cEqv}
    \/ \E w \in {Lower(wAnd), Lower(wOr), wImplies, wIff} : Contains(Lower(p), w)

\* the answer of the categorical path
IsCategoricalUnsupported(r) ==
    /\ "op" \notin DOMAIN r
    /\ r.success = FALSE
    /\ r.confidence = 4
    /\ r.conclusion = <<"Categorical statements require predicate logic analysis">>

\* C12 as stated: every input with a quantifier word (all, some, every, any)
\* and no binary operator is reported as CategoricalUnsupported.
C12_QuantifierWithoutBinaryOperator ==
    (InFlight /\ HasQuantifierWord(problem) /\ ~HasBinaryOperator(problem)) =>
        IsCategoricalUnsupported(result)

\* C12, amended: every input with a quantifier word, no binary operator, no
\* negation symbol, and not both of the words 'if' and 'then', is reported as
\* CategoricalUnsupported: success = false, confidence 0.4 and the conclusion
\* that it requires predicate logic analysis.
C12_CategoricalUnsupported ==
    (/\ InFlight
     /\ HasQuantifierWord(problem)
     /\ ~HasBinaryOperator(problem)
     /\ \A i \in DOMAIN problem : problem[i] # cNot
     /\ ~(Contains(Lower(problem), wIf) /\ Contains(Lower(problem), wThen))) =>
        IsCategoricalUnsupported(result)

\* a text with a quantifier word and nothing else to read has been answered
C12_Witness ==
    /\ InFlight
    /\ HasQuantifierWord(problem)
    /\ ~HasOperator(problem)
    /\ ~Contains(Lower(problem), wIf)
    /\ IsCategoricalUnsupported(result)

\* C12 with the conditional reading alone set aside, which a negation symbol
\* between two letters still refutes
C12_OnlyConditionalSetAside ==
    (/\ InFlight
     /\ HasQuantifierWord(problem)
     /\ ~HasBinaryOperator(problem)
     /\ ~(Contains(Lower(problem), wIf) /\ Contains(Lower(problem), wThen))) =>
        IsCategoricalUnsupported(result)

\* the expression handed to the classifier is a Python tuple, which has no
\* atoms method: the classification raises AttributeError
ClassificationRaises == InFlight /\ parsed_expr.op = "tuple"

\* C13: whenever an internal error occurs while an expression is being
\* classified, the result of reason has success = false and confidence 0.1,
\* and its explanation contains the error description.
C13_ClassificationErrorFails ==
    ClassificationRaises =>
        /\ result.success = FALSE
        /\ result.confidence = 1
        /\ \E i \in DOMAIN result.result : result.result[i] = "AttributeError"

\* p is 'X word Y' for two different single letters X and Y
IsBinaryWord(p, word) ==
    /\ Len(p) = 4 + Len(word)
    /\ Left(p) \in Letters
    /\ Right(p) \in Letters
    /\ Left(p) # Right(p)
    /\ p = <<Left(p), " ">> \o word \o <<" ", Right(p)>>

\* C14: a biconditional over two different single-letter variables, written
\* with the equivalence symbol or with 'iff', is built as Equivalent(X, Y):
\* reason returns success = true and a four-row table whose Result is true
\* exactly on the rows where X and Y have the same value.
C14_BiconditionalTable ==
    (InFlight /\ (IsBinary(problem, cEqv) \/ IsBinaryWord(problem, wIff))) =>
        /\ result.success
        /\ IsTableOf(result.truth_table, Left(problem), Right(problem),
                     LAMBDA a, b : a = b)

\* a table of two rows over x whose Result column is R(x's value)
IsUnaryTableOf(t, x, R(_)) ==
    /\ t # None
    /\ Len(t) = 2
    /\ \A a \in {pyTrue, pyFalse} : \E i \in DOMAIN t : DictGet(t[i], <<x>>) = a
    /\ \A i \in DOMAIN t :
          ResultOf(t[i]) = (IF R(DictGet(t[i], <<x>>) = pyTrue) THEN pyTrue ELSE pyFalse)

\* C15: a negation with one single-letter operand, the negation symbol before
\* X, is built as Not(X): reason returns success = true and a two-row table
\* over X whose Result is the opposite of X's value in each row.
C15_NegationTable ==
    (InFlight /\ Len(problem) = 2 /\ problem[1] = cNot /\ problem[2] \in Letters) =>
        /\ result.success
        /\ IsUnaryTableOf(result.truth_table, problem[2], LAMBDA a : ~a)

\* C16: an input that is one single letter is accepted as an expression with
\* one variable: reason returns success = true and a two-row table over that
\* variable whose Result equals the variable's value.
C16_BareAtomTable ==
    (InFlight /\ Len(problem) = 1 /\ problem[1] \in Letters) =>
        /\ result.success
        /\ IsUnaryTableOf(result.truth_table, problem[1], LAMBDA a : a)

\* the two answers carry the same expression, table, conclusion and confidence
SameAnswer(r1, r2) ==
    /\ "expression" \in DOMAIN r1
    /\ "expression" \in DOMAIN r2
    /\ r1.expression = r2.expression
    /\ r1.truth_table = r2.truth_table
    /\ r1.conclusion = r2.conclusion
    /\ r1.confidence = r2.confidence

Spellings == { <<wImplies, cImp>>, <<Lower(wAnd), cAnd>>, <<Lower(wOr), cOr>> }

\* C17: for a binary statement over two single-letter operands, the operator
\* written as a word (implies, and, or) gives the same expression, table,
\* conclusion and confidence as the operator written as its symbol.
C17_WordSpellingAgreesWithSymbol ==
    \A sp \in Spellings :
        (InFlight /\ IsBinaryWord(problem, sp[1])) =>
            SameAnswer(result,
                       reason(Binary(Left(problem), <<" ">>, sp[2], Right(problem)),
                              symbol_map).value)

\* C18: table generation is deterministic and idempotent: generating the
\* table once more for the same expression, or for an equal one built again
\* with its operands in the other order, and whatever the order in which the
\* atoms come out of the set, yields the same rows with the same values in
\* the same order.
C18_TableGenerationIsDeterministic ==
    [][(InFlight /\ calls' = calls + 1) =>
          result'.truth_table = result.truth_table]_vars

\* the four-row table of an expression over two variables has been generated
\* a second and a third time
C18_Witness ==
    /\ InFlight
    /\ calls = MaxCalls
    /\ Cardinality(Variables(parsed_expr)) = 2
    /\ Len(result.truth_table) = 4

\* C19: a new LogicReasoner starts with an empty cache, and over any sequence
\* of reason calls a name once entered in symbol_map stays bound to the same
\* object: it is never rebound and never removed.
C19_CacheOnlyGrows ==
    /\ symbol_map = <<>>
    /\ [][\A n \in DOMAIN symbol_map :
              /\ n \in DOMAIN symbol_map'
              /\ symbol_map'[n] = symbol_map[n]]_vars

\* the second call has referred to A again while B, which it does not
\* mention, is still in the cache
C19_Witness ==
    /\ InFlight
    /\ calls = 2
    /\ problem = pAimpliesA
    /\ <<"A">> \in DOMAIN symbol_map
    /\ <<"B">> \in DOMAIN symbol_map
    /\ symbol_map[<<"A">>] = Symbol(<<"A">>)

\* the text is empty, shorter than 5 characters once trimmed, or longer than
\* 2000 characters
MustBeRejected(p) ==
    \/ p = <<>>
    \/ Len(Strip(p, {" "})) < 5
    \/ Len(p) > 2000

\* C20: process_problem rejects an input that is empty, whose trimmed length
\* is below 5 or whose length exceeds 2000: it returns success = false with
\* an error message and calls neither reasoner; every other input passes
\* validation and is handed to a reasoner.
C20_ValidationGate ==
    [][(Idle /\ result' # None) =>
          IF MustBeRejected(problem')
          THEN /\ "error" \in DOMAIN result'
               /\ result'.error # <<>>
               /\ result'.success = FALSE
               /\ calls' = calls
               /\ nl_calls' = nl_calls
          ELSE /\ "error" \notin DOMAIN result'
               /\ calls' + nl_calls' > calls + nl_calls]_vars

\* a text of 2001 characters has been rejected before any reasoner was called
C20_Witness ==
    /\ InFlight
    /\ Len(problem) = 2001
    /\ "error" \in DOMAIN result
    /\ result.success = FALSE
    /\ calls = 0
    /\ nl_calls = 0

\* C21: when the built expression has no variables, the evaluator returns an
\* empty table and the classifier concludes 'always true' with confidence 1.0
\* for the value true and 'always false' with confidence 1.0 for false.
C21_ConstantExpression ==
    (InFlight /\ IsBoolConst(parsed_expr)) =>
        /\ result.truth_table = <<>>
        /\ result.confidence = 10
        /\ result.conclusion = (IF parsed_expr = BoolTrue
                                THEN <<"The statement is always true.">>
                                ELSE <<"The statement is always false.">>)

\* p is 'X op X' for one single letter X
IsBinarySame(p, op) ==
    \E sp \in Spacing :
        /\ Len(p) = 3 + 2 * Len(sp)
        /\ Left(p) \in Letters
        /\ Left(p) = Right(p)
        /\ p = Binary(Left(p), sp, op, Right(p))

\* C22: for a binary statement whose two operands are the same letter X
\* (implication, conjunction or disjunction) the expression's variable set is
\* exactly {X} and the table has exactly two rows, one for X false and one for
\* X true, with X as its only variable column.
C22_SameLetterOperands ==
    \A op \in {cImp, cAnd, cOr} :
        (InFlight /\ IsBinarySame(problem, op)) =>
            /\ result.success
            /\ Variables(parsed_expr) = {Symbol(<<Left(problem)>>)}
            /\ Len(result.truth_table) = 2
            /\ \A i \in 1..2 :
                  VariablePart(result.truth_table[i])
                     = << << <<Left(problem)>>, IF i = 1 THEN pyFalse ELSE pyTrue >> >>

\* the statement as _parse_statement splits it: trimmed, the operators replaced
Cleaned(p) == ReplaceOperators(Strip(p, Whitespace), 1)

\* one side of a split as one atomic variable: trimmed, without its enclosing
\* parentheses, a single symbol whatever is left in it
AtomicVariable(part) == Symbol(Strip(Strip(part, Whitespace), {"(", ")", " "}))

AtomicVariables(parts) == [i \in DOMAIN parts |-> AtomicVariable(parts[i])]

\* the statement split on the first operator of the priority order that occurs
\* in it, each side one atomic variable
SplitByPriority(clean) ==
    IF Contains(clean, wImpliesCap)
    THEN Implies(AtomicVariable(Split(clean, <<wImpliesCap>>)[1]),
                 AtomicVariable(Split(clean, <<wImpliesCap>>)[2]))
    ELSE IF Contains(clean, wAnd)
    THEN And(AtomicVariables(Split(clean, <<wAnd>>)))
    ELSE IF Contains(clean, wOr)
    THEN Or(AtomicVariables(Split(clean, <<wOr>>)))
    ELSE Not(AtomicVariable(Replace(clean, wNot, <<>>)))

\* the implication sign occurs at most once in the statement
AtMostOneImplication(clean) ==
    Contains(clean, wImpliesCap) => Len(Split(clean, <<wImpliesCap>>)) = 2

\* C23: _parse_statement splits the statement on the first operator of the
\* priority order implication, conjunction, disjunction, negation that occurs
\* in it, wherever it occurs, and every side of the split, trimmed and without
\* its enclosing parentheses, becomes one atomic variable: nothing of a side
\* is parsed further.
C23_SplitByPriority ==
    (calls > 0 /\ AtMostOneImplication(Cleaned(problem))) =>
        parsed_expr = SplitByPriority(Cleaned(problem))

\* the evaluation of e under the assignment of row i raises
RowFails(e, i) == IsRaise(subs(e, AssignmentOf(SortedByStr(atoms(e)), i)))

\* the indices of the assignments of e whose evaluation succeeds
Evaluated(e) == { i \in 0..(2 ^ Cardinality(atoms(e)) - 1) : ~RowFails(e, i) }

\* the k-th smallest element of a set of numbers
Nth(S, k) == CHOOSE x \in S : Cardinality({ y \in S : y < x }) = k - 1

\* a table was generated for an expression some assignment of which fails
SomeRowFails ==
    /\ InFlight
    /\ parsed_expr # None
    /\ ~AtomsRaises(parsed_expr)
    /\ Evaluated(parsed_expr) # 0..(2 ^ Cardinality(atoms(parsed_expr)) - 1)

C25_SuccessTableExpression ==
    InFlight =>
        /\ result.success <=> result.truth_table # None
        /\ result.success <=> "expression" \in DOMAIN result
        /\ ~result.success =>
              (result.truth_table = None /\ "expression" \notin DOMAIN result)

\* a success whose table is an empty list: still a list, with an expression
C25_Witness ==
    /\ InFlight
    /\ result.success
    /\ result.truth_table = <<>>
    /\ "expression" \in DOMAIN result

\* C26: the result of reason(p) does not depend on the calls made before on
\* the same reasoner: with whatever names the cache holds, the call gives the
\* result a new reasoner gives, with the same success, table, conclusion,
\* confidence and expression.
C26_ResultIndependentOfHistory ==
    InFlight => result = reason(problem, <<>>).value

\* the second call parses 'B and B' while A is in the cache from the first
C26_Witness ==
    /\ InFlight
    /\ calls = 2
    /\ problem = <<"B", " ", cAnd, " ", "B">>
    /\ <<"A">> \in DOMAIN symbol_map
    /\ result.success

\* the answers by which a path of reason is known
IsConditionalAnswer(r) ==
    r.conclusion \in
        { <<"This is a conditional statement (if-then). The truth table shows all possible truth value combinations.">>,
          <<"Conditional structure not found">> }

IsDefaultAnswer(r) == r.conclusion = <<"No clear logical structure detected">>

\* the text holds both of the words 'if' and 'then', in any case
HasIfAndThen(p) == Contains(Lower(p), wIf) /\ Contains(Lower(p), wThen)

\* the text holds a letter, an operator symbol and a letter, with nothing but
\* blanks between them
HasLetterOperatorLetter(p) ==
    \E i, j, k \in DOMAIN p :
        /\ i < j /\ j < k
        /\ IsLetter(p[i]) /\ IsSymbolOp(p[j]) /\ IsLetter(p[k])
        /\ \A m \in (i + 1)..(k - 1) : m = j \/ p[m] = " "

\* C27: reason picks its path in a fixed order.  An input with a 'letter
\* operator letter' fragment is answered by the formal path: never as a
\* conditional, as categorical or by the default failure.  The categorical
\* report is given only to a text that lacks 'if' or 'then', the default
\* failure only to a text that in addition has no quantifier word.  An input
\* without a formal statement that holds both a quantifier word and an
\* if ... then conditional is answered as a conditional, with success = true
\* and confidence 0.8.
C27_PathOrder ==
    InFlight =>
        /\ HasLetterOperatorLetter(problem) =>
              /\ ~IsConditionalAnswer(result)
              /\ ~IsCategoricalUnsupported(result)
              /\ ~IsDefaultAnswer(result)
        /\ IsConditionalAnswer(result) => _extract_logical_statement(problem) = NoneStr
        /\ IsCategoricalUnsupported(result) => ~HasIfAndThen(problem)
        /\ IsDefaultAnswer(result) =>
              (~HasIfAndThen(problem) /\ ~HasQuantifierWord(problem))
        /\ (/\ _extract_logical_statement(problem) = NoneStr
            /\ HasQuantifierWord(problem)
            /\ ReadsIfThen(problem)) =>
              /\ result.success
              /\ result.confidence = 8
              /\ IsConditionalAnswer(result)

\* 'If all A then B' has been answered as a conditional
C27_Witness ==
    /\ InFlight
    /\ problem = <<"I", "f", " ", "a", "l", "l", " ", "A", " ", "t", "h", "e", "n", " ", "B">>
    /\ result.success
    /\ result.confidence = 8

\* the call took the formal path and handed an expression to the classifier
ReachedClassifier ==
    /\ InFlight
    /\ _extract_logical_statement(problem) # NoneStr
    /\ parsed_expr # None

\* a single Implies, And or Or whose operands are atomic variables
IsSingleConnective(e) ==
    /\ e.op \in {"Implies", "And", "Or"}
    /\ \A i \in DOMAIN e.args : e.args[i].op = "Symbol"

\* some assignment of truth values to the variables and tuples of e makes e
\* true
HasModel(e) == \E m \in [Literals(e) -> BOOLEAN] : Holds(e, m)

\* C28 as stated: no result of reason concludes 'always false
\* (contradiction)', and every expression that reaches the classifier through
\* reason is a single Implies, And or Or of atomic variables.
C28_SingleConnectiveNeverContradiction ==
    /\ InFlight => result.conclusion # ContradictionConclusion
    /\ ReachedClassifier => IsSingleConnective(parsed_expr)

\* C28, amended: no result of reason concludes 'always false
\* (contradiction)': every expression that reaches the classifier through
\* reason and can be classified is satisfiable.
C28_NeverContradiction ==
    /\ InFlight => result.conclusion # ContradictionConclusion
    /\ (ReachedClassifier /\ ~AtomsRaises(parsed_expr)) => HasModel(parsed_expr)

\* 'A not B' has reached the classifier as a negation, no single connective
\* of variables, and is found satisfiable
C28_Witness ==
    /\ ReachedClassifier
    /\ problem = pAnotB
    /\ parsed_expr.op = "Not"
    /\ result.conclusion = ContingencyConclusion

\* p[i..k] is a letter, an operator symbol and a letter with nothing but
\* blanks between them
IsFragment(p, i, k) ==
    /\ IsLetter(p[i]) /\ IsLetter(p[k])
    /\ \E j \in (i + 1)..(k - 1) :
          /\ IsSymbolOp(p[j])
          /\ \A m \in ((i + 1)..(k - 1)) \ {j} : p[m] = " "

FragmentStarts(p) == { i \in DOMAIN p : \E k \in DOMAIN p : IsFragment(p, i, k) }

\* the leftmost 'letter operator letter' fragment of a text that holds one
LeftmostFragment(p) ==
    LET i == CHOOSE i \in FragmentStarts(p) : \A o \in FragmentStarts(p) : i <= o
    IN  SubSeq(p, i, CHOOSE k \in DOMAIN p : IsFragment(p, i, k))

\* C29: of an input with a 'letter operator letter' fragment, reason analyses
\* the leftmost such fragment only: the truth table, the conclusion and the
\* confidence are those of the fragment handed to reason alone, whatever
\* else the input holds, further fragments and enclosing formulas included.
C29_OnlyLeftmostFragment ==
    (InFlight /\ HasLetterOperatorLetter(problem)) =>
        /\ result.truth_table = reason(LeftmostFragment(problem), <<>>).value.truth_table
        /\ result.conclusion = reason(LeftmostFragment(problem), <<>>).value.conclusion
        /\ result.confidence = reason(LeftmostFragment(problem), <<>>).value.confidence

\* of '(A -> B) and (B -> P)' the first implication alone has been analysed
C29_Witness ==
    /\ InFlight
    /\ problem = <<"(", "A", " ", cImp, " ", "B", ")", " ", cAnd, " ",
                   "(", "B", " ", cImp, " ", "P", ")">>
    /\ parsed_expr = Implies(Symbol(<<"A">>), Symbol(<<"B">>))
    /\ Len(result.truth_table) = 4
    /\ result.conclusion = ContingencyConclusion

\* C30: whenever the input passes validation, process_problem returns
\* success = true, also when the reasoners it called returned success =
\* false; a result with success = false is an error dict, returned for an
\* input that fails validation.
C30_SuccessAfterValidation ==
    InFlight =>
        /\ ~MustBeRejected(problem) =>
              (result.success = TRUE /\ "error" \notin DOMAIN result)
        /\ result.success = FALSE =>
              (MustBeRejected(problem) /\ "error" \in DOMAIN result)

\* the logic reasoner found no structure in the text and said success =
\* false; the controller still reports success
C30_Witness ==
    /\ InFlight
    /\ ~MustBeRejected(problem)
    /\ "logic_reasoning" \in DOMAIN result
    /\ result.logic_reasoning # None
    /\ result.logic_reasoning.success = FALSE
    /\ result.success = TRUE

====
